---- MODULE Spec2Model ----
(***************************************************************************)
(* A model of the AI coding assistant: the conversation driver             *)
(* (handleAIRequest in cli.js, askQuestion in tools.js) and the file-tree  *)
(* tools it dispatches to (browseDirectory, findFiles, searchInFiles,      *)
(* globalSearchReplace in tools.js), and the command line of cli.js        *)
(* (parseArgs, main, handleDirectCommand, executeDirectTool).              *)
(***************************************************************************)
EXTENDS Integers, Sequences, FiniteSets, TLC

(***************************************************************************)
(* Bounds of the model.  The step budgets stand for the program's          *)
(* maxSteps (20 in cli.js, 50 in tools.js), scaled down: the loop is the   *)
(* same for every budget >= 1.                                             *)
(***************************************************************************)
CliMaxSteps == 2
AssistantMaxSteps == 3
MaxTurns == 2

VARIABLES
  driver,        \* "cli" (handleAIRequest) or "assistant" (askQuestion of tools.js)
  pc,            \* position of the driver: idle, loop, awaitModel, awaitTool, after
  turn,          \* number of conversation turns started
  messages,      \* const messages = []: the history of the current turn
  stepCount,     \* let stepCount
  inflightModel, \* model.generateContent calls not yet settled
  inflightTool,  \* tools[f].fn calls not yet settled
  modelCalls,    \* model calls issued in this turn
  toolCalls,     \* tool operations invoked in this turn
  responses,     \* the raw responses received in this turn, in order
  lastInput,     \* the history handed to the most recent model call
  toolResult,    \* how the most recent tool call settled: none, ok, throws
  exitReason,    \* why the loop was left: none, budget, parse, error, output
  warned,        \* the "Maximum steps reached" line was printed in this turn
  tree,          \* the file tree: node -> [name, dir]
  content,       \* file node -> its text, a sequence of characters
  unreadable,    \* nodes whose fs.readdir, fs.stat and fs.readFile fail
  unwritable,    \* files whose fs.writeFile fails
  argv,          \* how the program was started: process.argv or a typed line
  config,        \* the ConfigManager of the process, defaultConfig and config.json
  phase,         \* ready: no tool has run yet; done: one has
  call,          \* the tool that ran and the input it was given
  result,        \* what the tool built: its results object, or its error
  reads,         \* directories the tool enumerated with fs.readdir
  writes         \* files the tool wrote with fs.writeFile

driverVars ==
  <<driver, pc, turn, messages, stepCount, inflightModel, inflightTool,
    modelCalls, toolCalls, responses, lastInput, toolResult, exitReason, warned>>

fsVars == <<tree, content, unreadable, unwritable, argv, config>>

toolVars == <<fsVars, phase, call, result, reads, writes>>

vars == <<driverVars, toolVars>>

(***************************************************************************)
(* The model service's possible response texts.                            *)
(***************************************************************************)
RPlan == "{\"type\":\"plan\",\"plan\":\"p\"}"
RActionTool == "{\"type\":\"action\",\"function\":\"browseDirectory\",\"input\":{}}"
RActionMissing == "{\"type\":\"action\",\"function\":\"deleteFile\",\"input\":{}}"
RActionInherited == "{\"type\":\"action\",\"function\":\"constructor\",\"input\":{}}"
ROutput == "{\"type\":\"output\",\"output\":\"o\"}"
RObservation == "{\"type\":\"observation\"}"
RNull == "null"
RNotJson == "Sure, here is the plan"

Responses ==
  {RPlan, RActionTool, RActionMissing, RActionInherited, ROutput,
   RObservation, RNull, RNotJson}

Prompts == {"fix the bug", "add a test"}

\* JSON.parse(response): ok = FALSE stands for the SyntaxError it throws.
JSONParse(response) ==
  CASE response = RPlan ->
         [ok |-> TRUE, isNull |-> FALSE, type |-> "plan", function |-> "", text |-> TRUE]
    [] response = RActionTool ->
         [ok |-> TRUE, isNull |-> FALSE, type |-> "action",
          function |-> "browseDirectory", text |-> FALSE]
    [] response = RActionMissing ->
         [ok |-> TRUE, isNull |-> FALSE, type |-> "action",
          function |-> "deleteFile", text |-> FALSE]
    [] response = RActionInherited ->
         [ok |-> TRUE, isNull |-> FALSE, type |-> "action",
          function |-> "constructor", text |-> FALSE]
    [] response = ROutput ->
         [ok |-> TRUE, isNull |-> FALSE, type |-> "output", function |-> "", text |-> TRUE]
    [] response = RObservation ->
         [ok |-> TRUE, isNull |-> FALSE, type |-> "observation", function |-> "",
          text |-> FALSE]
    [] response = RNull ->
         [ok |-> TRUE, isNull |-> TRUE, type |-> "", function |-> "", text |-> FALSE]
    [] OTHER ->
         [ok |-> FALSE, isNull |-> FALSE, type |-> "", function |-> "", text |-> FALSE]

\* logStep(step) throws a TypeError when it reads step.type of null, or calls
\* step.observation.substring on an observation step without a string.
LogStepThrows(step) ==
  \/ step.isNull
  \/ step.type = "observation" /\ ~step.text

(***************************************************************************)
(* The tool registry: export const tools = { ... }, a plain object.        *)
(***************************************************************************)
Registered == {"browseDirectory", "findFiles", "globalSearchReplace", "searchInFiles"}

\* Property names every plain object inherits from Object.prototype.
ObjectPrototypeKeys == {"constructor", "toString", "hasOwnProperty"}

\* tools[name] is truthy.
ToolsLookupTruthy(name) == name \in Registered \cup ObjectPrototypeKeys

\* typeof tools[name].fn === "function"
HasFn(name) == name \in Registered

(***************************************************************************)
(* History entries.                                                        *)
(***************************************************************************)
UserEntry(prompt) == [kind |-> "user", text |-> prompt, detail |-> ""]
RawEntry(response) == [kind |-> "raw", text |-> response, detail |-> ""]
Observation(text, detail) == [kind |-> "observation", text |-> text, detail |-> detail]

SuccessObservation == Observation("Success: result", "")
NotFoundObservation(name) == Observation("Error: Tool not found", name)
NotAFunctionObservation(name) ==
  Observation("Error: tools[step.function].fn is not a function", name)
ToolErrorObservation == Observation("Error: tool failed", "")

\* A use of messages.push that keeps only a window of the history.
PushWindowed(msgs, entry) ==
  IF Len(msgs) >= 2 THEN Append(Tail(msgs), entry) ELSE Append(msgs, entry)

\* messages.push(entry)
Push(msgs, entry) == Append(msgs, entry)

maxSteps == IF driver = "cli" THEN CliMaxSteps ELSE AssistantMaxSteps

\* Where control goes once a tool operation has been invoked without await.
AfterInvokeNoAwait == "loop"

\* const result = await tools[step.function].fn(step.input)
AfterInvoke == "awaitTool"

\* A parse failure answered with continue.
OnParseFailureRetry == "loop"

\* catch (parseError) { ...; break; }
OnParseFailure == "after"

\* A Plan step that ends the turn.
OnPlanStop == "after"

\* if (step.type === "plan") { continue; }, and any step that is neither an
\* action nor an output: the loop body ends and the loop goes on.
OnPlan == "loop"

\* A model call given only the latest entry of the history.
ModelInputLatest(msgs) == <<msgs[Len(msgs)]>>

\* model.generateContent(messages.join("\n"))
ModelInput(msgs) == msgs

\* A turn that goes on from the history of the turn before.
HistoryCarriedOver == messages

\* const messages = []
HistoryAtStart == <<>>

\* An observation appended twice.
WithObservationTwice(msgs, observation) == Push(Push(msgs, observation), observation)

\* messages.push(JSON.stringify(observation))
WithObservation(msgs, observation) == Push(msgs, observation)

\* An Output step after which the loop goes on.
OnOutputContinue == "loop"

\* if (step.type === "output") { ...; break; }
OnOutput == "after"

\* A tool failure that leaves the loop.
OnToolFailureBreak == "after"

\* catch (error) { ...; messages.push(...); continue; }
OnToolFailure == "loop"

(***************************************************************************)
(* The file tree the tools work on.  A name is a sequence of characters.   *)
(* Node 0 is process.cwd(); fs.readdir lists a directory's children in     *)
(* the order Children gives.                                                *)
(***************************************************************************)
Nodes == 0..5

Parent == <<0, 0, 2, 2, 4>>

Children(n) ==
  CASE n = 0 -> <<1, 2>>
    [] n = 2 -> <<3, 4>>
    [] n = 4 -> <<5>>
    [] OTHER -> <<>>

src == <<"s", "r", "c">>
lib == <<"l", "i", "b">>
node_modules == <<"n", "o", "d", "e", "_", "m", "o", "d", "u", "l", "e", "s">>
dot_git == <<".", "g", "i", "t">>
dot_env == <<".", "e", "n", "v">>
a_js == <<"a", ".", "j", "s">>
b_md == <<"b", ".", "m", "d">>
c_js == <<"c", ".", "j", "s">>
dot_d_js == <<".", "d", ".", "j", "s">>

File(name) == [name |-> name, dir |-> FALSE]
Dir(name) == [name |-> name, dir |-> TRUE]

\* The entries each node of the tree may be.
NodeChoices(n) ==
  CASE n = 0 -> {Dir(<<>>)}
    [] n = 1 -> {File(a_js), File(dot_env), Dir(dot_git)}
    [] n = 2 -> {Dir(src), Dir(node_modules)}
    [] n = 3 -> {File(b_md), File(node_modules)}
    [] n = 4 -> {Dir(lib), Dir(node_modules), Dir(dot_git)}
    [] n = 5 -> {File(c_js), File(dot_d_js)}

Trees == {t \in [Nodes -> UNION {NodeChoices(n) : n \in Nodes}] :
            /\ \A n \in Nodes : t[n] \in NodeChoices(n)
            /\ \A n, o \in Nodes \ {0} :
                 (n # o /\ Parent[n] = Parent[o]) => t[n].name # t[o].name}

Texts == {<<"a", "a", "a">>, <<"a", ".", "b">>}

DefaultContent == [n \in Nodes |-> <<"a", "a", "a">>]

DefaultTree ==
  [n \in Nodes |->
     CASE n = 0 -> Dir(<<>>)
       [] n = 1 -> File(a_js)
       [] n = 2 -> Dir(src)
       [] n = 3 -> File(b_md)
       [] n = 4 -> Dir(lib)
       [] n = 5 -> File(c_js)]

\* entry.isDirectory(), entry.isFile()
IsDirectory(n) == tree[n].dir
IsFile(n) == ~tree[n].dir

\* stats.size, stats.mtime
Size(n) == Len(content[n])
MTime(n) == 10 - n

RECURSIVE PathFrom(_, _)
\* path.relative(base, node): the names on the way down from base to node.
PathFrom(base, n) ==
  IF n = base \/ n = 0 THEN <<>> ELSE Append(PathFrom(base, Parent[n]), tree[n].name)

\* What a path resolves to when nothing in the tree has that path.
Nowhere == -1

RECURSIVE Resolve(_, _)
\* path.resolve(process.cwd(), directory): the node a relative path names.
Resolve(from, dirPath) ==
  IF dirPath = <<>> THEN from
  ELSE LET next == {c \in Nodes \ {0} : Parent[c] = from /\ tree[c].name = Head(dirPath)}
       IN IF next = {} THEN Nowhere ELSE Resolve(CHOOSE c \in next : TRUE, Tail(dirPath))

\* A readdir that never fails.
ReaddirFailsNever(n) == FALSE

\* fs.readdir(n) rejects: no such directory, not a directory, or no permission.
ReaddirFails(n) == n = Nowhere \/ n \in unreadable \/ ~tree[n].dir

\* entry.name.startsWith(".")
StartsWithDot(name) == Len(name) > 0 /\ name[1] = "."

LastDot(name) ==
  LET dots == {i \in 1..Len(name) : name[i] = "."}
  IN IF dots = {} THEN 0 ELSE CHOOSE i \in dots : \A j \in dots : j <= i

\* path.extname(name): from the last dot on, empty when the name has no dot or
\* only a leading one.
ExtName(name) ==
  IF LastDot(name) <= 1 THEN <<>> ELSE SubSeq(name, LastDot(name), Len(name))

\* array.includes(x) on an array given as a sequence
Includes(array, x) == \E i \in 1..Len(array) : array[i] = x

(***************************************************************************)
(* Sorting of the browse results: Array.prototype.sort, which is stable.   *)
(***************************************************************************)
Collation == <<"_", ".", "a", "b", "c", "d", "e", "g", "i", "j", "l", "m", "n", "o",
               "r", "s", "t", "u", "v">>

CharRank(c) == CHOOSE i \in 1..Len(Collation) : Collation[i] = c

RECURSIVE LocaleCompare(_, _)
\* a.localeCompare(b): negative, zero or positive
LocaleCompare(a, b) ==
  IF a = <<>> /\ b = <<>> THEN 0
  ELSE IF a = <<>> THEN -1
  ELSE IF b = <<>> THEN 1
  ELSE IF CharRank(Head(a)) < CharRank(Head(b)) THEN -1
  ELSE IF CharRank(Head(a)) > CharRank(Head(b)) THEN 1
  ELSE LocaleCompare(Tail(a), Tail(b))

\* (a.size || 0), new Date(a.modified || 0): a directory record has neither.
SizeOrZero(e) == IF e.type = "file" THEN e.size ELSE 0
ModifiedOrZero(e) == IF e.type = "file" THEN e.modified ELSE 0

\* sortFunction(a, b)
SortFunction(a, b, sortBy, order) ==
  LET comparison ==
        CASE sortBy = "name" -> LocaleCompare(a.name, b.name)
          [] sortBy = "size" -> SizeOrZero(a) - SizeOrZero(b)
          [] sortBy = "modified" -> ModifiedOrZero(a) - ModifiedOrZero(b)
          [] OTHER -> 0
  IN IF order = "desc" THEN 0 - comparison ELSE comparison

RECURSIVE InsertSorted(_, _, _, _)
InsertSorted(sorted, e, sortBy, order) ==
  IF sorted = <<>> THEN <<e>>
  ELSE IF SortFunction(e, Head(sorted), sortBy, order) < 0 THEN <<e>> \o sorted
  ELSE <<Head(sorted)>> \o InsertSorted(Tail(sorted), e, sortBy, order)

RECURSIVE Sort(_, _, _)
\* array.sort(sortFunction)
Sort(array, sortBy, order) ==
  IF array = <<>> THEN <<>>
  ELSE InsertSorted(Sort(SubSeq(array, 1, Len(array) - 1), sortBy, order),
                    array[Len(array)], sortBy, order)

(***************************************************************************)
(* browseDirectory                                                         *)
(***************************************************************************)
MaxDepthBound == 2

\* A recursion guard that lets the directories at maxDepth be entered too.
DescendsInclusive(recursive, currentDepth, maxDepth) ==
  recursive /\ currentDepth <= maxDepth

\* if (recursive && currentDepth < maxDepth)
Descends(recursive, currentDepth, maxDepth) ==
  recursive /\ currentDepth < maxDepth

\* A recursive call that forgets to count the level.
NextDepthSame(currentDepth) == currentDepth

\* scanDirectory(fullPath, currentDepth + 1)
NextDepth(currentDepth) == currentDepth + 1

\* A walk that never skips a hidden entry.
SkipHiddenNever(includeHidden, name) == FALSE

\* if (!includeHidden && entry.name.startsWith('.')) continue;
SkipHidden(includeHidden, name) == ~includeHidden /\ StartsWithDot(name)

\* A check that never prunes.
IsExcludedNever(n, excludeDirs) == FALSE

\* entry.isDirectory() && excludeDirs.includes(entry.name)
IsExcluded(n, excludeDirs) == IsDirectory(n) /\ Includes(excludeDirs, tree[n].name)

NewBrowseResults ==
  [files |-> <<>>, directories |-> <<>>, totalFiles |-> 0, totalDirs |-> 0,
   totalSize |-> 0, reads |-> <<>>]

RECURSIVE ScanDirectory(_, _, _, _, _)
RECURSIVE ScanEntries(_, _, _, _, _, _)

\* async function scanDirectory(currentPath, currentDepth = 0); results is the
\* object the scan fills in, with the fs.readdir calls it made.
ScanDirectory(input, root, currentPath, currentDepth, results) ==
  IF currentDepth > input.maxDepth THEN results
  ELSE LET attempted == [results EXCEPT !.reads = Append(@, currentPath)]
       IN IF ReaddirFails(currentPath) THEN attempted
          ELSE ScanEntries(input, root, Children(currentPath), 1, currentDepth, attempted)

\* for (const entry of entries) { ... }, from the i-th entry on; an exception
\* (fs.stat) ends the loop, caught by scanDirectory's catch.
ScanEntries(input, root, entries, i, currentDepth, results) ==
  IF i > Len(entries) THEN results
  ELSE
    LET entry == entries[i]
        name == tree[entry].name
        relativePath == PathFrom(root, entry)
    IN
    IF SkipHidden(input.includeHidden, name)
      THEN ScanEntries(input, root, entries, i + 1, currentDepth, results)
    ELSE IF IsExcluded(entry, input.excludeDirs)
      THEN ScanEntries(input, root, entries, i + 1, currentDepth, results)
    ELSE IF IsDirectory(entry)
      THEN
        LET recorded ==
              [results EXCEPT
                 !.directories =
                    Append(@, [name |-> name, path |-> relativePath,
                               depth |-> currentDepth, type |-> "directory"]),
                 !.totalDirs = @ + 1]
            scanned ==
              IF Descends(input.recursive, currentDepth, input.maxDepth)
                THEN ScanDirectory(input, root, entry, NextDepth(currentDepth), recorded)
                ELSE recorded
        IN ScanEntries(input, root, entries, i + 1, currentDepth, scanned)
    ELSE IF entry \in unreadable
      THEN results
    ELSE
      LET fileInfo == [name |-> name, path |-> relativePath, size |-> Size(entry),
                       modified |-> MTime(entry), depth |-> currentDepth,
                       type |-> "file", extension |-> ExtName(name)]
          recorded ==
            IF Len(input.fileTypes) = 0 \/ Includes(input.fileTypes, fileInfo.extension)
              THEN [results EXCEPT !.files = Append(@, fileInfo),
                                   !.totalFiles = @ + 1,
                                   !.totalSize = @ + fileInfo.size]
              ELSE results
      IN ScanEntries(input, root, entries, i + 1, currentDepth, recorded)

\* The results object browseDirectory renders: scanned from the resolved
\* path, then files and directories sorted.
BrowseResults(input) ==
  LET absolutePath == Resolve(0, input.path)
      scanned == ScanDirectory(input, absolutePath, absolutePath, 0, NewBrowseResults)
  IN [scanned EXCEPT
        !.files = Sort(@, input.sortBy, input.order),
        !.directories = Sort(@, input.sortBy, input.order)]

(***************************************************************************)
(* findFiles                                                               *)
(***************************************************************************)
RECURSIVE GlobToRegex(_)
\* pattern.replace(/\*/g, '.*')
GlobToRegex(pattern) ==
  IF pattern = <<>> THEN <<>>
  ELSE IF Head(pattern) = "*" THEN <<".", "*">> \o GlobToRegex(Tail(pattern))
  ELSE <<Head(pattern)>> \o GlobToRegex(Tail(pattern))

\* One regular-expression atom against one character: "." matches any.
AtomMatches(atom, c) == atom = "." \/ atom = c

RECURSIVE RegexTest(_, _, _, _)
\* new RegExp(`^${source}$`).test(name), from source[i] and name[j] on, for a
\* source made of characters, "." and starred atoms.
RegexTest(source, i, name, j) ==
  IF i > Len(source) THEN j > Len(name)
  ELSE IF i < Len(source) /\ source[i + 1] = "*"
    THEN \/ RegexTest(source, i + 2, name, j)
         \/ /\ j <= Len(name)
            /\ AtomMatches(source[i], name[j])
            /\ RegexTest(source, i, name, j + 1)
  ELSE /\ j <= Len(name)
       /\ AtomMatches(source[i], name[j])
       /\ RegexTest(source, i + 1, name, j + 1)

\* name.includes(pattern)
StringIncludes(name, pattern) ==
  \E i \in 1..(Len(name) + 1) :
    /\ i + Len(pattern) - 1 <= Len(name)
    /\ SubSeq(name, i, i + Len(pattern) - 1) = pattern

\* A match rule in which the extension filter narrows the pattern rule.
MatchesPatternFiltered(name, pattern, fileTypes) ==
  /\ IF Includes(pattern, "*")
       THEN RegexTest(GlobToRegex(pattern), 1, name, 1)
       ELSE StringIncludes(name, pattern)
  /\ (Len(fileTypes) = 0 \/ Includes(fileTypes, ExtName(name)))

\* The matchesPattern the loop computes for a file name.
MatchesPattern(name, pattern, fileTypes) ==
  LET byPattern ==
        IF Includes(pattern, "*")
          THEN RegexTest(GlobToRegex(pattern), 1, name, 1)
          ELSE StringIncludes(name, pattern)
  IN IF ~byPattern /\ Len(fileTypes) > 0
       THEN Includes(fileTypes, ExtName(name))
       ELSE byPattern

RECURSIVE SearchDirectory(_, _, _, _)
RECURSIVE SearchEntries(_, _, _, _, _)

\* async function searchDirectory(currentPath, currentDepth = 0)
SearchDirectory(input, currentPath, currentDepth, found) ==
  IF currentDepth > input.maxDepth THEN found
  ELSE LET attempted == [found EXCEPT !.reads = Append(@, currentPath)]
       IN IF ReaddirFails(currentPath) THEN attempted
          ELSE SearchEntries(input, Children(currentPath), 1, currentDepth, attempted)

SearchEntries(input, entries, i, currentDepth, found) ==
  IF i > Len(entries) THEN found
  ELSE
    LET entry == entries[i]
        name == tree[entry].name
    IN
    IF SkipHidden(input.includeHidden, name)
      THEN SearchEntries(input, entries, i + 1, currentDepth, found)
    ELSE IF IsExcluded(entry, input.excludeDirs)
      THEN SearchEntries(input, entries, i + 1, currentDepth, found)
    ELSE IF IsDirectory(entry)
      THEN SearchEntries(input, entries, i + 1, currentDepth,
                         SearchDirectory(input, entry, currentDepth + 1, found))
    ELSE IF ~MatchesPattern(name, input.pattern, input.fileTypes)
      THEN SearchEntries(input, entries, i + 1, currentDepth, found)
    ELSE IF entry \in unreadable
      THEN found
    ELSE SearchEntries(input, entries, i + 1, currentDepth,
           [found EXCEPT !.results =
              Append(@, [name |-> name, path |-> PathFrom(0, entry),
                         size |-> Size(entry), modified |-> MTime(entry),
                         extension |-> ExtName(name)])])

\* The results array findFiles renders, with the fs.readdir calls made.
FindResults(input) ==
  SearchDirectory(input, Resolve(0, input.directory), 0,
                  [results |-> <<>>, reads |-> <<>>])

(***************************************************************************)
(* globalSearchReplace                                                     *)
(***************************************************************************)
RECURSIVE SplitCount(_, _, _)
\* content.split(searchText).length - 1, counting from content[i] on
SplitCount(text, i, searchText) ==
  IF i + Len(searchText) - 1 > Len(text) THEN 0
  ELSE IF SubSeq(text, i, i + Len(searchText) - 1) = searchText
    THEN 1 + SplitCount(text, i + Len(searchText), searchText)
  ELSE SplitCount(text, i + 1, searchText)

\* new RegExp(searchText, 'g') throws a SyntaxError: an unclosed group.
RegExpThrows(searchText) == Includes(searchText, "(")

\* The regular expression matches at text[i]: every atom against its character.
MatchesAt(text, i, source) ==
  /\ i + Len(source) - 1 <= Len(text)
  /\ \A k \in 1..Len(source) : AtomMatches(source[k], text[i + k - 1])

RECURSIVE RegexReplaceAll(_, _, _, _)
\* content.replace(new RegExp(searchText, 'g'), replaceText), from text[i] on,
\* for a searchText of characters and "."
RegexReplaceAll(text, i, source, replaceText) ==
  IF i > Len(text) THEN <<>>
  ELSE IF MatchesAt(text, i, source)
    THEN replaceText \o RegexReplaceAll(text, i + Len(source), source, replaceText)
  ELSE <<text[i]>> \o RegexReplaceAll(text, i + 1, source, replaceText)

\* A guard that forgets the dry-run flag.
WritesFileAlways(dryRun, replaceText) == replaceText.defined

\* if (!dryRun && replaceText !== undefined)
WritesFile(dryRun, replaceText) == ~dryRun /\ replaceText.defined

RECURSIVE ProcessDirectory(_, _, _)
RECURSIVE ProcessEntries(_, _, _, _)

\* async function processDirectory(currentPath); st carries the results
\* object, the file contents as written so far, and the fs calls made.
ProcessDirectory(input, currentPath, st) ==
  LET attempted == [st EXCEPT !.reads = Append(@, currentPath)]
  IN IF ReaddirFails(currentPath) THEN attempted
     ELSE ProcessEntries(input, Children(currentPath), 1, attempted)

ProcessEntries(input, entries, i, st) ==
  IF i > Len(entries) THEN st
  ELSE
    LET entry == entries[i]
        name == tree[entry].name
        rest(next) == ProcessEntries(input, entries, i + 1, next)
    IN
    IF IsDirectory(entry) /\ ~Includes(input.excludeDirs, name)
      THEN rest(ProcessDirectory(input, entry, st))
    ELSE IF ~IsFile(entry)
      THEN rest(st)
    ELSE IF ~(Len(input.fileTypes) = 0 \/ Includes(input.fileTypes, ExtName(name)))
      THEN rest(st)
    ELSE IF entry \in unreadable
      THEN rest([st EXCEPT !.fileReads = Append(@, entry)])
    ELSE
      LET text == st.content[entry]
          matches == SplitCount(text, 1, input.searchText)
          read == [st EXCEPT !.fileReads = Append(@, entry)]
          counted == [read EXCEPT !.filesProcessed = @ + 1,
                                  !.matchesFound = @ + matches]
          file == PathFrom(0, entry)
      IN
      IF ~(matches > 0) THEN rest(read)
      ELSE IF WritesFile(input.dryRun, input.replaceText)
        THEN IF RegExpThrows(input.searchText) THEN rest(counted)
             ELSE IF entry \in unwritable THEN rest(counted)
             ELSE rest([counted EXCEPT
                          !.content[entry] =
                             RegexReplaceAll(text, 1, input.searchText,
                                             input.replaceText.text),
                          !.writes = Append(@, entry),
                          !.replacements = @ + matches,
                          !.changes = Append(@, [file |-> file, matches |-> matches,
                                                 replaced |-> TRUE])])
      ELSE rest([counted EXCEPT
                   !.changes = Append(@, [file |-> file, matches |-> matches,
                                          replaced |-> FALSE])])

\* The results object globalSearchReplace renders, with the file contents it
\* leaves behind and the fs calls it made.
ReplaceResults(input) ==
  ProcessDirectory(input, Resolve(0, input.directory),
                   [filesProcessed |-> 0, matchesFound |-> 0, replacements |-> 0,
                    changes |-> <<>>, content |-> content, reads |-> <<>>,
                    fileReads |-> <<>>, writes |-> <<>>])

(***************************************************************************)
(* searchInFiles                                                           *)
(***************************************************************************)
\* name.endsWith(suffix)
EndsWith(name, suffix) ==
  /\ Len(name) >= Len(suffix)
  /\ SubSeq(name, Len(name) - Len(suffix) + 1, Len(name)) = suffix

RECURSIVE SplitOn(_, _)
\* s.split(sep) for a separator of one character
SplitOn(s, sep) ==
  LET at == {i \in 1..Len(s) : s[i] = sep}
  IN IF at = {} THEN <<s>>
     ELSE LET first == CHOOSE i \in at : \A j \in at : i <= j
          IN <<SubSeq(s, 1, first - 1)>> \o SplitOn(SubSeq(s, first + 1, Len(s)), sep)

RECURSIVE Trim(_)
\* s.trim()
Trim(s) ==
  IF s = <<>> THEN s
  ELSE IF Head(s) = " " THEN Trim(Tail(s))
  ELSE IF s[Len(s)] = " " THEN Trim(SubSeq(s, 1, Len(s) - 1))
  ELSE s

RECURSIVE MatchLines(_, _, _, _)
\* lines.forEach((line, index) => { if (line.includes(pattern)) results.push(...) }),
\* from the k-th line on
MatchLines(lines, k, file, pattern) ==
  IF k > Len(lines) THEN <<>>
  ELSE IF StringIncludes(lines[k], pattern)
    THEN <<[file |-> file, line |-> k, content |-> Trim(lines[k])]>>
           \o MatchLines(lines, k + 1, file, pattern)
  ELSE MatchLines(lines, k + 1, file, pattern)

RECURSIVE SearchDir(_, _, _)
RECURSIVE SearchDirEntries(_, _, _, _)

\* async function searchDir(dir): fs.readdir is not guarded, so its failure
\* leaves searchDir and every caller up to the tool's catch.
SearchDir(input, dir, st) ==
  LET attempted == [st EXCEPT !.reads = Append(@, dir)]
  IN IF ReaddirFails(dir) THEN [attempted EXCEPT !.failed = TRUE]
     ELSE SearchDirEntries(input, Children(dir), 1, attempted)

SearchDirEntries(input, entries, i, st) ==
  IF st.failed \/ i > Len(entries) THEN st
  ELSE
    LET entry == entries[i]
        name == tree[entry].name
        rest(next) == SearchDirEntries(input, entries, i + 1, next)
    IN
    IF IsDirectory(entry) /\ ~StartsWithDot(name) /\ name # node_modules
      THEN rest(SearchDir(input, entry, st))
    ELSE IF ~IsFile(entry)
      THEN rest(st)
    ELSE IF input.fileExtension.defined /\ input.fileExtension.text # <<>>
            /\ ~EndsWith(name, input.fileExtension.text)
      THEN rest(st)
    ELSE IF entry \in unreadable
      THEN rest([st EXCEPT !.fileReads = Append(@, entry)])
    ELSE rest([st EXCEPT
                 !.fileReads = Append(@, entry),
                 !.results = @ \o MatchLines(SplitOn(content[entry], "\n"), 1,
                                             PathFrom(0, entry), input.pattern)])

\* What searchInFiles collected, with the fs calls it made; failed when a
\* fs.readdir threw.
SearchResults(input) ==
  SearchDir(input, Resolve(0, input.directory),
            [results |-> <<>>, reads |-> <<>>, fileReads |-> <<>>, failed |-> FALSE])

(***************************************************************************)
(* The driver.                                                             *)
(***************************************************************************)
\* The driver before any request.
DriverIdle ==
  /\ pc = "idle"
  /\ turn = 0
  /\ messages = <<>>
  /\ stepCount = 0
  /\ inflightModel = 0
  /\ inflightTool = 0
  /\ modelCalls = 0
  /\ toolCalls = 0
  /\ responses = <<>>
  /\ lastInput = <<>>
  /\ toolResult = "none"
  /\ exitReason = "none"
  /\ warned = FALSE

(***************************************************************************)
(* The configuration: the ConfigManager instance of the process, the       *)
(* defaultConfig object it spreads from, and the file config.json.  One    *)
(* setting (global.maxDepth) and the templates of one type (templates.node)*)
(* stand for the nested objects global and templates.                      *)
(***************************************************************************)
\* defaultConfig.global.maxDepth as written in the source
ConfigDefaultMaxDepth == 5

\* The names under defaultConfig.templates.node as written in the source
DefaultTemplates == {"basic", "express"}

\* config.json does not exist.
NoConfigFile == [exists |-> FALSE, maxDepth |-> ConfigDefaultMaxDepth,
                 templates |-> DefaultTemplates]

\* config.json as JSON.stringify wrote it.
ConfigFile(maxDepth, templates) ==
  [exists |-> TRUE, maxDepth |-> maxDepth, templates |-> templates]

\* A process that has just started: defaultConfig as written, this.config =
\* null (constructor).  shared.k says that this.config[k] is the very object
\* defaultConfig[k]; own holds the nested objects this.config has to itself.
FreshProcess(file) ==
  [defaults |-> [maxDepth |-> ConfigDefaultMaxDepth, templates |-> DefaultTemplates],
   loaded |-> FALSE,
   shared |-> [global |-> FALSE, templates |-> FALSE],
   own |-> [maxDepth |-> ConfigDefaultMaxDepth, templates |-> DefaultTemplates],
   file |-> file]

\* this.config.global.maxDepth, Object.keys(this.config.templates.node)
GlobalOf(c) == IF c.shared.global THEN c.defaults.maxDepth ELSE c.own.maxDepth
TemplatesOf(c) == IF c.shared.templates THEN c.defaults.templates ELSE c.own.templates

\* this.config = { ...defaultConfig }: a new top-level object whose global
\* and templates are the objects of defaultConfig themselves.
SpreadDefaults(c) ==
  [c EXCEPT !.loaded = TRUE, !.shared = [global |-> TRUE, templates |-> TRUE]]

\* fs.writeFile(CONFIG_FILE, JSON.stringify(this.config, null, 2), "utf-8")
WriteConfigFile(c) ==
  [c EXCEPT !.file = ConfigFile(GlobalOf(c), TemplatesOf(c))]

\* async load(): the file's global and templates replace the default ones;
\* without a file, the defaults are spread and saved.
ConfigLoad(c) ==
  IF c.file.exists
    THEN [c EXCEPT !.loaded = TRUE,
                   !.shared = [global |-> FALSE, templates |-> FALSE],
                   !.own = [maxDepth |-> c.file.maxDepth, templates |-> c.file.templates]]
    ELSE WriteConfigFile(SpreadDefaults(c))

\* async save()
ConfigSave(c) == WriteConfigFile(IF c.loaded THEN c ELSE ConfigLoad(c))

\* set("global.maxDepth", value): current = this.config.global;
\* current.maxDepth = value
ConfigSet(c, value) ==
  IF c.shared.global THEN [c EXCEPT !.defaults.maxDepth = value]
  ELSE [c EXCEPT !.own.maxDepth = value]

\* async reset()
ConfigReset(c) == ConfigSave(SpreadDefaults(c))

\* async addTemplate("node", name, template)
ConfigAddTemplate(c, name) ==
  ConfigSave(IF c.shared.templates THEN [c EXCEPT !.defaults.templates = @ \cup {name}]
             ELSE [c EXCEPT !.own.templates = @ \cup {name}])

\* async removeTemplate("node", name)
ConfigRemoveTemplate(c, name) ==
  IF name \in TemplatesOf(c)
    THEN ConfigSave(IF c.shared.templates THEN [c EXCEPT !.defaults.templates = @ \ {name}]
                    ELSE [c EXCEPT !.own.templates = @ \ {name}])
    ELSE c

\* Started without arguments: no command to run.
NoCommand == [via |-> "none", args |-> <<>>]

\* No tool has run.
ToolsReady ==
  /\ phase = "ready"
  /\ call = [tool |-> "none"]
  /\ result = [status |-> "none"]
  /\ reads = [dirs |-> <<>>, files |-> <<>>]
  /\ writes = <<>>

Init ==
  /\ driver \in {"cli", "assistant"}
  /\ DriverIdle
  /\ tree = DefaultTree
  /\ content = DefaultContent
  /\ unreadable = {}
  /\ unwritable = {}
  /\ argv = NoCommand
  /\ config = FreshProcess(NoConfigFile)
  /\ ToolsReady

\* A request arrives: the history is seeded and the counter set to zero.
StartTurn(prompt) ==
  /\ pc = "idle"
  /\ turn < MaxTurns
  /\ turn' = turn + 1
  /\ messages' = Push(HistoryAtStart, UserEntry(prompt))
  /\ stepCount' = 0
  /\ modelCalls' = 0
  /\ toolCalls' = 0
  /\ responses' = <<>>
  /\ lastInput' = <<>>
  /\ toolResult' = "none"
  /\ exitReason' = "none"
  /\ warned' = FALSE
  /\ pc' = "loop"
  /\ UNCHANGED <<driver, inflightModel, inflightTool>>
  /\ UNCHANGED toolVars

\* while (stepCount < maxSteps) { stepCount++; model.generateContent(messages.join("\n"))
CallModel ==
  /\ pc = "loop"
  /\ stepCount < maxSteps
  /\ stepCount' = stepCount + 1
  /\ modelCalls' = modelCalls + 1
  /\ inflightModel' = inflightModel + 1
  /\ lastInput' = ModelInput(messages)
  /\ pc' = "awaitModel"
  /\ UNCHANGED <<driver, turn, messages, inflightTool, toolCalls, responses,
                 toolResult, exitReason, warned>>
  /\ UNCHANGED toolVars

\* The loop condition fails.
LoopExit ==
  /\ pc = "loop"
  /\ ~(stepCount < maxSteps)
  /\ pc' = "after"
  /\ exitReason' = "budget"
  /\ UNCHANGED <<driver, turn, messages, stepCount, inflightModel, inflightTool,
                 modelCalls, toolCalls, responses, lastInput, toolResult, warned>>
  /\ UNCHANGED toolVars

\* The model call rejects: the outer catch reports the error and breaks.
ModelRejects ==
  /\ pc = "awaitModel"
  /\ inflightModel' = inflightModel - 1
  /\ pc' = "after"
  /\ exitReason' = "error"
  /\ UNCHANGED <<driver, turn, messages, stepCount, inflightTool, modelCalls,
                 toolCalls, responses, lastInput, toolResult, warned>>
  /\ UNCHANGED toolVars

\* The model call resolves with `response`: parse, log, append, dispatch.
ModelResponds(response) ==
  LET step == JSONParse(response)
      withRaw == Push(messages, RawEntry(response))
  IN
  /\ pc = "awaitModel"
  /\ inflightModel' = inflightModel - 1
  /\ responses' = Append(responses, response)
  /\ IF ~step.ok
       THEN /\ pc' = OnParseFailure
            /\ exitReason' = IF OnParseFailure = "after" THEN "parse" ELSE exitReason
            /\ UNCHANGED <<messages, inflightTool, toolCalls>>
     ELSE IF LogStepThrows(step)
       THEN /\ pc' = "after"
            /\ exitReason' = "error"
            /\ UNCHANGED <<messages, inflightTool, toolCalls>>
     ELSE IF step.type = "action"
       THEN IF ~ToolsLookupTruthy(step.function)
              THEN /\ messages' = Push(withRaw, NotFoundObservation(step.function))
                   /\ pc' = "loop"
                   /\ UNCHANGED <<inflightTool, toolCalls, exitReason>>
            ELSE IF ~HasFn(step.function)
              THEN /\ messages' = Push(withRaw, NotAFunctionObservation(step.function))
                   /\ pc' = "loop"
                   /\ UNCHANGED <<inflightTool, toolCalls, exitReason>>
            ELSE /\ messages' = withRaw
                 /\ inflightTool' = inflightTool + 1
                 /\ toolCalls' = toolCalls + 1
                 /\ pc' = AfterInvoke
                 /\ UNCHANGED exitReason
     ELSE IF step.type = "output"
       THEN /\ messages' = withRaw
            /\ pc' = OnOutput
            /\ exitReason' = IF OnOutput = "after" THEN "output" ELSE exitReason
            /\ UNCHANGED <<inflightTool, toolCalls>>
     ELSE /\ messages' = withRaw
          /\ pc' = OnPlan
          /\ exitReason' = IF OnPlan = "after" THEN "error" ELSE exitReason
          /\ UNCHANGED <<inflightTool, toolCalls>>
  /\ UNCHANGED <<driver, turn, stepCount, modelCalls, lastInput, toolResult, warned>>
  /\ UNCHANGED toolVars

\* The tool operation settles: its result or its error becomes an observation.
ToolReturns(outcome) ==
  /\ pc = "awaitTool"
  /\ inflightTool > 0
  /\ inflightTool' = inflightTool - 1
  /\ toolResult' = outcome
  /\ IF outcome = "ok"
       THEN /\ messages' = WithObservation(messages, SuccessObservation)
            /\ pc' = "loop"
            /\ UNCHANGED exitReason
       ELSE /\ messages' = WithObservation(messages, ToolErrorObservation)
            /\ pc' = OnToolFailure
            /\ exitReason' = IF OnToolFailure = "after" THEN "error" ELSE exitReason
  /\ UNCHANGED <<driver, turn, stepCount, inflightModel, modelCalls, toolCalls,
                 responses, lastInput, warned>>
  /\ UNCHANGED toolVars

\* if (stepCount >= maxSteps) console.log("Maximum steps reached ..."); then the
\* next question is asked.
AfterLoop ==
  /\ pc = "after"
  /\ warned' = (stepCount >= maxSteps)
  /\ pc' = "idle"
  /\ UNCHANGED <<driver, turn, messages, stepCount, inflightModel, inflightTool,
                 modelCalls, toolCalls, responses, lastInput, toolResult, exitReason>>
  /\ UNCHANGED toolVars

Next ==
  \/ \E prompt \in Prompts : StartTurn(prompt)
  \/ CallModel
  \/ LoopExit
  \/ ModelRejects
  \/ \E response \in Responses : ModelResponds(response)
  \/ \E outcome \in {"ok", "throws"} : ToolReturns(outcome)
  \/ AfterLoop

Spec == Init /\ [][Next]_vars

(***************************************************************************)
(* The tools as operations on the file tree: one call of a tool.            *)
(***************************************************************************)
dot_vscode == <<".", "v", "s", "c", "o", "d", "e">>
dot_idea == <<".", "i", "d", "e", "a">>
dot_js == <<".", "j", "s">>
dot_ts == <<".", "t", "s">>
dot_jsx == <<".", "j", "s", "x">>
dot_tsx == <<".", "t", "s", "x">>
dot_json == <<".", "j", "s", "o", "n">>
dot_md == <<".", "m", "d">>

\* excludeDirs = ["node_modules", ".git", ".vscode", ".idea"]
DefaultExcludeDirs == <<node_modules, dot_git, dot_vscode, dot_idea>>

\* fileTypes = [".js", ".ts", ".jsx", ".tsx", ".json", ".md"]
DefaultReplaceFileTypes == <<dot_js, dot_ts, dot_jsx, dot_tsx, dot_json, dot_md>>

ExcludeChoices == {<<>>, <<node_modules>>, DefaultExcludeDirs}

\* The directories a call may start from, as paths relative to process.cwd().
StartPaths == {PathFrom(0, d) : d \in {0, 2, 4}}

SortChoices == {<<"name", "asc">>, <<"size", "desc">>, <<"modified", "asc">>}

BrowseInputs ==
  {[path |-> p, recursive |-> r, maxDepth |-> m, includeHidden |-> h,
    fileTypes |-> f, excludeDirs |-> x, sortBy |-> so[1], order |-> so[2]] :
     p \in StartPaths, r \in BOOLEAN, m \in 0..MaxDepthBound, h \in BOOLEAN,
     f \in {<<>>, <<dot_js>>}, x \in ExcludeChoices, so \in SortChoices}

FindInputs ==
  {[pattern |-> pt, directory |-> p, fileTypes |-> f, excludeDirs |-> x,
    maxDepth |-> m, includeHidden |-> h] :
     pt \in {<<>>, <<"*", ".", "j", "s">>, <<"b">>}, p \in StartPaths,
     f \in {<<>>, <<dot_md>>}, x \in ExcludeChoices, m \in 0..MaxDepthBound,
     h \in BOOLEAN}

Undefined == [defined |-> FALSE, text |-> <<>>]
Defined(text) == [defined |-> TRUE, text |-> text]

ReplaceInputs ==
  {[searchText |-> st, replaceText |-> rt, directory |-> p, fileTypes |-> f,
    excludeDirs |-> x, dryRun |-> d] :
     st \in {<<>>, <<"a">>, <<".">>, <<"a", "a">>, <<"(">>},
     rt \in {Undefined, Defined(<<"b">>), Defined(<<>>)},
     p \in StartPaths, f \in {<<>>, DefaultReplaceFileTypes},
     x \in ExcludeChoices, d \in BOOLEAN}

\* The replace calls of the walk specification: one search text.
WalkReplaceInputs ==
  {i \in ReplaceInputs : i.searchText = <<"a">> /\ i.replaceText # Defined(<<>>)}

\* tools.browseDirectory.fn(input)
BrowseFn(input) ==
  /\ phase = "ready"
  /\ phase' = "done"
  /\ call' = [tool |-> "browseDirectory", input |-> input]
  /\ LET results == BrowseResults(input)
     IN /\ result' = [status |-> "ok", files |-> results.files,
                      directories |-> results.directories,
                      totalFiles |-> results.totalFiles,
                      totalDirs |-> results.totalDirs,
                      totalSize |-> results.totalSize]
        /\ reads' = [dirs |-> results.reads, files |-> <<>>]
  /\ writes' = <<>>
  /\ UNCHANGED fsVars

Browse(input) == BrowseFn(input) /\ UNCHANGED driverVars

\* tools.findFiles.fn(input)
FindFn(input) ==
  /\ phase = "ready"
  /\ phase' = "done"
  /\ call' = [tool |-> "findFiles", input |-> input]
  /\ IF input.pattern = <<>>
       THEN /\ result' = [status |-> "error",
                          message |-> "File search failed: Search pattern is required"]
            /\ reads' = [dirs |-> <<>>, files |-> <<>>]
       ELSE LET found == FindResults(input)
            IN /\ result' = [status |-> "ok", results |-> found.results]
               /\ reads' = [dirs |-> found.reads, files |-> <<>>]
  /\ writes' = <<>>
  /\ UNCHANGED fsVars

Find(input) == FindFn(input) /\ UNCHANGED driverVars

\* tools.globalSearchReplace.fn(input)
ReplaceFn(input) ==
  /\ phase = "ready"
  /\ phase' = "done"
  /\ call' = [tool |-> "globalSearchReplace", input |-> input]
  /\ IF input.searchText = <<>>
       THEN /\ result' = [status |-> "error",
                          message |-> "Global search/replace failed: Search text is required"]
            /\ reads' = [dirs |-> <<>>, files |-> <<>>]
            /\ writes' = <<>>
            /\ UNCHANGED content
       ELSE LET st == ReplaceResults(input)
            IN /\ result' = [status |-> "ok", filesProcessed |-> st.filesProcessed,
                             matchesFound |-> st.matchesFound,
                             replacements |-> st.replacements,
                             changes |-> st.changes]
               /\ reads' = [dirs |-> st.reads, files |-> st.fileReads]
               /\ writes' = st.writes
               /\ content' = st.content
  /\ UNCHANGED <<tree, unreadable, unwritable, argv, config>>

Replace(input) == ReplaceFn(input) /\ UNCHANGED driverVars

SearchInputs ==
  {[pattern |-> pt, directory |-> p, fileExtension |-> e] :
     pt \in {<<>>, <<"a">>, <<"z">>}, p \in StartPaths,
     e \in {Undefined, Defined(dot_js)}}

\* tools.searchInFiles.fn(input)
SearchFn(input) ==
  /\ phase = "ready"
  /\ phase' = "done"
  /\ call' = [tool |-> "searchInFiles", input |-> input]
  /\ IF input.pattern = <<>>
       THEN /\ result' = [status |-> "error",
                          message |-> "Search failed: Search pattern is required"]
            /\ reads' = [dirs |-> <<>>, files |-> <<>>]
       ELSE LET st == SearchResults(input)
            IN /\ result' = IF st.failed
                              THEN [status |-> "error", message |-> "Search failed: EACCES"]
                              ELSE [status |-> "ok", results |-> st.results]
               /\ reads' = [dirs |-> st.reads, files |-> st.fileReads]
  /\ writes' = <<>>
  /\ UNCHANGED fsVars

Search(input) == SearchFn(input) /\ UNCHANGED driverVars

\* What fails in the file system: nothing, a directory, a file, a write.
Faults == {<<{}, {}>>, <<{4}, {}>>, <<{1}, {}>>, <<{3}, {}>>, <<{}, {5}>>}

InitWalk ==
  /\ driver = "cli"
  /\ DriverIdle
  /\ tree \in Trees
  /\ content = DefaultContent
  /\ \E fault \in Faults : unreadable = fault[1] /\ unwritable = fault[2]
  /\ argv = NoCommand
  /\ config = FreshProcess(NoConfigFile)
  /\ ToolsReady

\* One call of each tool, with any of its inputs.
BrowseCall == phase = "ready" /\ \E input \in BrowseInputs : Browse(input)
FindCall == phase = "ready" /\ \E input \in FindInputs : Find(input)
WalkReplaceCall == phase = "ready" /\ \E input \in WalkReplaceInputs : Replace(input)
SearchCall == phase = "ready" /\ \E input \in SearchInputs : Search(input)
ReplaceCall == phase = "ready" /\ \E input \in ReplaceInputs : Replace(input)

NextWalk ==
  \/ BrowseCall
  \/ FindCall
  \/ WalkReplaceCall

SpecWalk == InitWalk /\ [][NextWalk]_vars

\* The text search on its own, over the same trees and faults.
NextSearch == SearchCall

SpecSearch == InitWalk /\ [][NextSearch]_vars

\* The trees of the search/replace specification: the names of the first two
\* files are fixed, the texts vary.
ReplaceTrees == {t \in Trees : t[1] = File(a_js) /\ t[3] = File(b_md)}

ReplaceContents ==
  {c \in [Nodes -> Texts] : c[0] = c[2] /\ c[2] = c[4] /\ c[4] = <<"a", "a", "a">>}

InitReplace ==
  /\ driver = "cli"
  /\ DriverIdle
  /\ tree \in ReplaceTrees
  /\ content \in ReplaceContents
  /\ \E fault \in Faults : unreadable = fault[1] /\ unwritable = fault[2]
  /\ argv = NoCommand
  /\ config = FreshProcess(NoConfigFile)
  /\ ToolsReady

NextReplace == ReplaceCall

SpecReplace == InitReplace /\ [][NextReplace]_vars

(***************************************************************************)
(* The match rule of findFiles on its own: a file name, a pattern and an   *)
(* extension filter are drawn, and the rule is applied to them.            *)
(***************************************************************************)
MaxNameLen == 3
MaxPatternLen == 3

SeqsUpTo(chars, n) == UNION {[1..k -> chars] : k \in 0..n}

FileNames == SeqsUpTo({"a", "b", "."}, MaxNameLen)

Patterns == SeqsUpTo({"*", ".", "a"}, MaxPatternLen) \ {<<>>}

dot_a == <<".", "a">>

InitMatch ==
  /\ driver = "cli"
  /\ DriverIdle
  /\ tree = DefaultTree
  /\ content = DefaultContent
  /\ unreadable = {}
  /\ unwritable = {}
  /\ argv = NoCommand
  /\ config = FreshProcess(NoConfigFile)
  /\ phase = "ready"
  /\ call \in {[tool |-> "matchesPattern", name |-> n, pattern |-> pt, fileTypes |-> f] :
                 n \in FileNames, pt \in Patterns, f \in {<<>>, <<dot_a>>}}
  /\ result = [status |-> "none"]
  /\ reads = [dirs |-> <<>>, files |-> <<>>]
  /\ writes = <<>>

\* The loop body of searchDirectory decides whether the file matches.
MatchFile ==
  /\ phase = "ready"
  /\ call.tool = "matchesPattern"
  /\ phase' = "done"
  /\ result' = [status |-> "ok",
                matches |-> MatchesPattern(call.name, call.pattern, call.fileTypes)]
  /\ UNCHANGED <<fsVars, call, reads, writes, driverVars>>

NextMatch == MatchFile

SpecMatch == InitMatch /\ [][NextMatch]_vars

(***************************************************************************)
(* The command line: parseArgs and main of cli.js, and the direct commands *)
(* of the interactive mode (handleDirectCommand, executeDirectCommand).    *)
(* An argument, an option key and a property name are sequences of         *)
(* characters.                                                             *)
(***************************************************************************)
cmd_browse == <<"b", "r", "o", "w", "s", "e">>
cmd_find == <<"f", "i", "n", "d">>
cmd_search == <<"s", "e", "a", "r", "c", "h">>
cmd_replace == <<"r", "e", "p", "l", "a", "c", "e">>

\* The options as the help text spells them.
opt_recursive == <<"-", "-", "r", "e", "c", "u", "r", "s", "i", "v", "e">>
opt_max_depth == <<"-", "-", "m", "a", "x", "-", "d", "e", "p", "t", "h">>
opt_include_hidden == <<"-", "-", "i", "n", "c", "l", "u", "d", "e", "-", "h", "i", "d", "d", "e", "n">>
opt_file_types == <<"-", "-", "f", "i", "l", "e", "-", "t", "y", "p", "e", "s">>
opt_exclude_dirs == <<"-", "-", "e", "x", "c", "l", "u", "d", "e", "-", "d", "i", "r", "s">>
opt_dry_run == <<"-", "-", "d", "r", "y", "-", "r", "u", "n">>
opt_include_node_modules == <<"-", "-", "i", "n", "c", "l", "u", "d", "e", "-", "n", "o", "d", "e", "-", "m", "o", "d", "u", "l", "e", "s">>

\* The keys parseArgs compares with: the option without its dashes.
key_max_depth == <<"m", "a", "x", "-", "d", "e", "p", "t", "h">>
key_include_hidden == <<"i", "n", "c", "l", "u", "d", "e", "-", "h", "i", "d", "d", "e", "n">>
key_file_types == <<"f", "i", "l", "e", "-", "t", "y", "p", "e", "s">>
key_exclude_dirs == <<"e", "x", "c", "l", "u", "d", "e", "-", "d", "i", "r", "s">>
key_dry_run == <<"d", "r", "y", "-", "r", "u", "n">>
key_include_node_modules == <<"i", "n", "c", "l", "u", "d", "e", "-", "n", "o", "d", "e", "-", "m", "o", "d", "u", "l", "e", "s">>

\* The properties of options that main and executeDirectCommand read.
prop_path == <<"p", "a", "t", "h">>
prop_recursive == <<"r", "e", "c", "u", "r", "s", "i", "v", "e">>
prop_maxDepth == <<"m", "a", "x", "D", "e", "p", "t", "h">>
prop_includeHidden == <<"i", "n", "c", "l", "u", "d", "e", "H", "i", "d", "d", "e", "n">>
prop_fileTypes == <<"f", "i", "l", "e", "T", "y", "p", "e", "s">>
prop_excludeDirs == <<"e", "x", "c", "l", "u", "d", "e", "D", "i", "r", "s">>
prop_sortBy == <<"s", "o", "r", "t", "B", "y">>
prop_order == <<"o", "r", "d", "e", "r">>
prop_pattern == <<"p", "a", "t", "t", "e", "r", "n">>
prop_directory == <<"d", "i", "r", "e", "c", "t", "o", "r", "y">>
prop_searchText == <<"s", "e", "a", "r", "c", "h", "T", "e", "x", "t">>
prop_replaceText == <<"r", "e", "p", "l", "a", "c", "e", "T", "e", "x", "t">>
prop_dryRun == <<"d", "r", "y", "R", "u", "n">>

\* JavaScript values an option can hold.
Missing == [kind |-> "undefined"]
True == [kind |-> "boolean"]
NaN == [kind |-> "NaN"]
Str(chars) == [kind |-> "string", chars |-> chars]
Num(n) == [kind |-> "number", n |-> n]
Arr(items) == [kind |-> "array", items |-> items]

\* The value as a condition: undefined, NaN, 0 and "" are falsy.
Truthy(v) ==
  CASE v.kind = "undefined" -> FALSE
    [] v.kind = "NaN" -> FALSE
    [] v.kind = "number" -> v.n # 0
    [] v.kind = "string" -> v.chars # <<>>
    [] OTHER -> TRUE

\* v || d
Or(v, d) == IF Truthy(v) THEN v ELSE d

\* const options = {}
NoOptions == [k \in {} |-> Missing]

\* options[key] = value
SetOption(options, key, value) ==
  [k \in DOMAIN options \cup {key} |-> IF k = key THEN value ELSE options[k]]

\* options.key
GetOption(options, key) == IF key \in DOMAIN options THEN options[key] ELSE Missing

\* arg.startsWith(prefix)
StartsWith(arg, prefix) ==
  Len(arg) >= Len(prefix) /\ SubSeq(arg, 1, Len(prefix)) = prefix

\* arg.slice(k)
Slice(arg, k) == SubSeq(arg, k + 1, Len(arg))

RECURSIVE StripDashes(_)
\* arg.replace(/^-+/, '')
StripDashes(arg) ==
  IF arg # <<>> /\ Head(arg) = "-" THEN StripDashes(Tail(arg)) ELSE arg

Digits == <<"0", "1", "2", "3", "4", "5", "6", "7", "8", "9">>
IsDigit(c) == \E d \in 1..Len(Digits) : Digits[d] = c
DigitValue(c) == (CHOOSE d \in 1..Len(Digits) : Digits[d] = c) - 1

RECURSIVE ParseDigits(_, _, _)
ParseDigits(chars, i, acc) ==
  IF i > Len(chars) \/ ~IsDigit(chars[i]) THEN acc
  ELSE ParseDigits(chars, i + 1, acc * Len(Digits) + DigitValue(chars[i]))

\* parseInt(value), for a value that does not start with "-"
ParseInt(chars) ==
  IF chars = <<>> \/ ~IsDigit(chars[1]) THEN NaN ELSE Num(ParseDigits(chars, 1, 0))

\* value.split(',').map(v => v.trim())
SplitList(chars) ==
  LET parts == SplitOn(chars, ",")
  IN [i \in 1..Len(parts) |-> Trim(parts[i])]

\* value && !value.startsWith('-'), for the argument after args[i]
HasValue(args, i) ==
  /\ i + 1 <= Len(args)
  /\ args[i + 1] # <<>>
  /\ ~StartsWith(args[i + 1], <<"-">>)

RECURSIVE ParseArgsFrom(_, _, _, _)
\* The loop of parseArgs over process.argv.slice(2), from args[i] on; args[1]
\* is the command.
ParseArgsFrom(args, i, options, positionalArgs) ==
  IF i > Len(args) THEN [options |-> options, positionalArgs |-> positionalArgs]
  ELSE
    LET arg == args[i]
        value == args[i + 1]
    IN
    IF StartsWith(arg, <<"-", "-">>)
      THEN
        LET key == Slice(arg, 2)
        IN IF HasValue(args, i)
             THEN ParseArgsFrom(args, i + 2,
                    SetOption(options, key,
                      IF key = key_file_types \/ key = key_exclude_dirs
                        THEN Arr(SplitList(value))
                      ELSE IF key = key_max_depth
                        THEN ParseInt(value)
                      ELSE IF key = key_include_hidden \/ key = prop_recursive
                              \/ key = key_dry_run \/ key = key_include_node_modules
                        THEN True
                      ELSE Str(value)),
                    positionalArgs)
             ELSE ParseArgsFrom(args, i + 1, SetOption(options, key, True), positionalArgs)
    ELSE IF StartsWith(arg, <<"-">>)
      THEN
        LET key == Slice(arg, 1)
        IN IF HasValue(args, i)
             THEN ParseArgsFrom(args, i + 2, SetOption(options, key, Str(value)),
                                positionalArgs)
             ELSE ParseArgsFrom(args, i + 1, SetOption(options, key, True), positionalArgs)
    ELSE ParseArgsFrom(args, i + 1, options, Append(positionalArgs, arg))

\* if (positionalArgs[k]) options.prop = positionalArgs[k], k counted from 1
SetFromPositional(options, prop, positionalArgs, k) ==
  IF k <= Len(positionalArgs) /\ positionalArgs[k] # <<>>
    THEN SetOption(options, prop, Str(positionalArgs[k]))
    ELSE options

\* switch (command) of parseArgs: the positional arguments become options.
MapPositional(command, options, positionalArgs) ==
  CASE command = cmd_browse ->
         SetFromPositional(options, prop_path, positionalArgs, 1)
    [] command = cmd_find \/ command = cmd_search ->
         SetFromPositional(
           SetFromPositional(options, prop_pattern, positionalArgs, 1),
           prop_directory, positionalArgs, 2)
    [] command = cmd_replace ->
         SetFromPositional(
           SetFromPositional(
             SetFromPositional(options, prop_searchText, positionalArgs, 1),
             prop_replaceText, positionalArgs, 2),
           prop_directory, positionalArgs, 3)
    [] OTHER -> options

\* parseArgs(), for a non-empty process.argv.slice(2)
ParseArgs(args) ==
  LET parsed == ParseArgsFrom(args, 2, NoOptions, <<>>)
  IN [command |-> args[1],
      options |-> MapPositional(args[1], parsed.options, parsed.positionalArgs)]

RECURSIVE ParseLineFrom(_, _, _)
\* The loop of handleDirectCommand, for (let i = 0; i < args.length; i += 2),
\* with i counted from 1: an argument at an even place is looked at only when
\* the option before it took a value.
ParseLineFrom(args, i, options) ==
  IF i > Len(args) THEN options
  ELSE IF args[i] # <<>> /\ StartsWith(args[i], <<"-">>)
    THEN IF HasValue(args, i)
           THEN ParseLineFrom(args, i + 3,
                              SetOption(options, StripDashes(args[i]), Str(args[i + 1])))
           ELSE ParseLineFrom(args, i + 2, SetOption(options, StripDashes(args[i]), True))
  ELSE ParseLineFrom(args, i + 2, options)

\* if (args[k] && !args[k].startsWith('-')) options.prop = args[k], k from 1
SetFromArg(options, prop, args, k) ==
  IF k <= Len(args) /\ args[k] # <<>> /\ ~StartsWith(args[k], <<"-">>)
    THEN SetOption(options, prop, Str(args[k]))
    ELSE options

\* switch (command) of handleDirectCommand
MapLineArgs(command, options, args) ==
  CASE command = cmd_browse ->
         SetFromArg(options, prop_path, args, 1)
    [] command = cmd_find \/ command = cmd_search ->
         SetFromArg(SetFromArg(options, prop_pattern, args, 1), prop_directory, args, 2)
    [] command = cmd_replace ->
         SetFromArg(
           SetFromArg(SetFromArg(options, prop_searchText, args, 1),
                      prop_replaceText, args, 2),
           prop_directory, args, 3)
    [] OTHER -> options

\* handleDirectCommand(message) up to its call of executeDirectCommand
ParseLine(message) ==
  LET parts == SplitOn(Trim(message), " ")
      args == Tail(parts)
  IN [command |-> parts[1],
      options |-> MapLineArgs(parts[1], ParseLineFrom(args, 1, NoOptions), args)]

\* path.join(process.cwd(), directory): the names of the path below cwd.
PathOf(chars) ==
  SelectSeq(SplitOn(chars, "/"), LAMBDA part : part # <<>> /\ part # <<".">>)

\* A value used as a number by the tools' comparisons.
ToNumber(v) ==
  CASE v.kind = "number" -> v.n
    [] v.kind = "string" -> ParseDigits(v.chars, 1, 0)
    [] v.kind = "boolean" -> 1

\* maxDepth: options.maxDepth || 3 (browse), || 5 (find)
BrowseDefaultMaxDepth == 3
FindDefaultMaxDepth == 5

\* The input object main and executeDirectCommand build for browseDirectory.
BrowseInputOf(options) ==
  [path |-> PathOf(Or(GetOption(options, prop_path), Str(<<".">>)).chars),
   recursive |-> Truthy(GetOption(options, prop_recursive)),
   maxDepth |-> ToNumber(Or(GetOption(options, prop_maxDepth), Num(BrowseDefaultMaxDepth))),
   includeHidden |-> Truthy(GetOption(options, prop_includeHidden)),
   fileTypes |-> Or(GetOption(options, prop_fileTypes), Arr(<<>>)).items,
   excludeDirs |-> Or(GetOption(options, prop_excludeDirs), Arr(DefaultExcludeDirs)).items,
   sortBy |-> IF Truthy(GetOption(options, prop_sortBy)) THEN "other" ELSE "name",
   order |-> IF Truthy(GetOption(options, prop_order)) THEN "other" ELSE "asc"]

\* The input object built for findFiles.
FindInputOf(options) ==
  [pattern |-> GetOption(options, prop_pattern).chars,
   directory |-> PathOf(Or(GetOption(options, prop_directory), Str(<<".">>)).chars),
   fileTypes |-> Or(GetOption(options, prop_fileTypes), Arr(<<>>)).items,
   excludeDirs |-> Or(GetOption(options, prop_excludeDirs), Arr(DefaultExcludeDirs)).items,
   maxDepth |-> ToNumber(Or(GetOption(options, prop_maxDepth), Num(FindDefaultMaxDepth))),
   includeHidden |-> Truthy(GetOption(options, prop_includeHidden))]

\* The input object built for searchInFiles.
SearchInputOf(options) ==
  [pattern |-> GetOption(options, prop_pattern).chars,
   directory |-> PathOf(Or(GetOption(options, prop_directory), Str(<<".">>)).chars),
   fileExtension |->
     IF Truthy(GetOption(options, prop_fileTypes))
       THEN Defined(GetOption(options, prop_fileTypes).items[1])
       ELSE Undefined]

\* The input object built for globalSearchReplace.
ReplaceInputOf(options) ==
  [searchText |-> GetOption(options, prop_searchText).chars,
   replaceText |->
     IF GetOption(options, prop_replaceText).kind = "undefined"
       THEN Undefined
       ELSE Defined(GetOption(options, prop_replaceText).chars),
   directory |-> PathOf(Or(GetOption(options, prop_directory), Str(<<".">>)).chars),
   fileTypes |-> Or(GetOption(options, prop_fileTypes), Arr(DefaultReplaceFileTypes)).items,
   excludeDirs |-> Or(GetOption(options, prop_excludeDirs), Arr(DefaultExcludeDirs)).items,
   dryRun |-> Truthy(GetOption(options, prop_dryRun))]

\* The driver's variables a direct command leaves alone.
driverVarsButPc ==
  <<driver, turn, messages, stepCount, inflightModel, inflightTool,
    modelCalls, toolCalls, responses, lastInput, toolResult, exitReason, warned>>

\* executeDirectTool(toolName, input): the tool runs; when it throws, the
\* catch prints the error and calls process.exit(1).  Otherwise control goes
\* back to the caller: main returns and the process ends, the interactive
\* mode asks the next question.
ExecuteDirectTool(fn) ==
  /\ fn
  /\ pc' = IF result'.status = "error" THEN "exited"
           ELSE IF argv.via = "line" THEN "idle" ELSE "exited"
  /\ UNCHANGED driverVarsButPc

\* A required argument is missing: main prints the usage and calls
\* process.exit(1), executeDirectCommand prints the error and returns.
MissingArgument ==
  /\ phase = "ready"
  /\ phase' = "done"
  /\ call' = [tool |-> "none"]
  /\ result' = [status |-> "usage"]
  /\ pc' = IF argv.via = "line" THEN "idle" ELSE "exited"
  /\ UNCHANGED <<fsVars, reads, writes, driverVarsButPc>>

\* switch (command) of main and of executeDirectCommand
RunCommand(command, options) ==
  \/ /\ command = cmd_browse
     /\ ExecuteDirectTool(BrowseFn(BrowseInputOf(options)))
  \/ /\ command = cmd_find
     /\ IF ~Truthy(GetOption(options, prop_pattern))
          THEN MissingArgument
          ELSE ExecuteDirectTool(FindFn(FindInputOf(options)))
  \/ /\ command = cmd_search
     /\ IF ~Truthy(GetOption(options, prop_pattern))
          THEN MissingArgument
          ELSE ExecuteDirectTool(SearchFn(SearchInputOf(options)))
  \/ /\ command = cmd_replace
     /\ IF ~Truthy(GetOption(options, prop_searchText))
          THEN MissingArgument
          ELSE ExecuteDirectTool(ReplaceFn(ReplaceInputOf(options)))

\* main(), started with a command on the command line
Main ==
  /\ phase = "ready"
  /\ argv.via = "argv"
  /\ RunCommand(ParseArgs(argv.args).command, ParseArgs(argv.args).options)

\* The interactive mode reads a line that is a direct command.
HandleDirectCommand ==
  /\ phase = "ready"
  /\ argv.via = "line"
  /\ pc = "idle"
  /\ RunCommand(ParseLine(argv.message).command, ParseLine(argv.message).options)

RECURSIVE Join(_, _)
\* The arguments as a typed line: joined by sep.
Join(args, sep) ==
  IF args = <<>> THEN <<>>
  ELSE IF Len(args) = 1 THEN args[1]
  ELSE args[1] \o <<sep>> \o Join(Tail(args), sep)

\* The argument lists of the commands as the help text documents them:
\* <command> [arguments] [options].
OptionChoices(option, values) == {<<>>} \cup {<<option, v>> : v \in values}
FlagChoices(option) == {<<>>, <<option>>}

BrowseArgs ==
  {<<cmd_browse, p>> \o r \o m \o h \o f \o x :
     p \in {<<".">>, src},
     r \in FlagChoices(opt_recursive),
     m \in OptionChoices(opt_max_depth, {<<Digits[n + 1]>> : n \in 0..MaxDepthBound}),
     h \in FlagChoices(opt_include_hidden),
     f \in OptionChoices(opt_file_types, {dot_js}),
     x \in OptionChoices(opt_exclude_dirs, {lib, lib \o <<",">> \o dot_git})}

FindArgs ==
  {<<cmd_find>>}
    \cup {<<cmd_find, <<"*", ".", "j", "s">>>> \o d \o m \o h \o f :
            d \in {<<>>, <<src>>},
            m \in OptionChoices(opt_max_depth, {<<Digits[n + 1]>> : n \in 0..MaxDepthBound}),
            h \in FlagChoices(opt_include_hidden),
            f \in OptionChoices(opt_file_types, {dot_md})}

SearchArgs ==
  {<<cmd_search, <<"a">>>> \o d \o f :
     d \in {<<>>, <<src>>}, f \in OptionChoices(opt_file_types, {dot_js})}

ReplaceArgs ==
  {<<cmd_replace, <<"a">>>> \o r \o f \o d :
     r \in {<<>>, <<<<"b">>>>, <<<<"b">>, src>>},
     f \in OptionChoices(opt_file_types, {dot_js}),
     d \in FlagChoices(opt_dry_run)}

CommandArgs == BrowseArgs \cup FindArgs \cup SearchArgs \cup ReplaceArgs

CommandLines ==
  {[via |-> "argv", args |-> a, message |-> <<>>] : a \in CommandArgs}
    \cup {[via |-> "line", args |-> <<>>, message |-> Join(a, " ")] : a \in CommandArgs}

\* The trees the commands run on: the directory src exists.
CliTrees == {t \in Trees : t[2] = Dir(src) /\ t[3] = File(b_md)}

InitCli ==
  /\ driver = "cli"
  /\ DriverIdle
  /\ tree \in CliTrees
  /\ content = DefaultContent
  /\ unreadable \in {{}, {4}}
  /\ unwritable = {}
  /\ argv \in CommandLines
  /\ config = FreshProcess(NoConfigFile)
  /\ ToolsReady

NextCli ==
  \/ Main
  \/ HandleDirectCommand

SpecCli == InitCli /\ [][NextCli]_vars

(***************************************************************************)
(* Claims about the conversation driver.                                   *)
(***************************************************************************)
IsPrefix(s, t) == Len(s) <= Len(t) /\ SubSeq(t, 1, Len(s)) = s

TurnEnded == pc = "idle" /\ turn > 0

\* Every model call of the turn has been answered.
AllAnswered == Len(responses) = modelCalls

LastResponse == responses[Len(responses)]

IsActionEntry(entry) == entry.kind = "raw" /\ JSONParse(entry.text).type = "action"

\* C1: a turn in which the model never returns an Output step and every
\* response parses ends after exactly maxSteps model calls, with the "maximum
\* steps reached" warning, and nothing is outstanding afterwards.
C1_BudgetExactlySpent ==
  (/\ TurnEnded
   /\ AllAnswered
   /\ \A i \in 1..Len(responses) :
        JSONParse(responses[i]).ok /\ JSONParse(responses[i]).type # "output")
  => (modelCalls = maxSteps /\ warned /\ inflightModel = 0 /\ inflightTool = 0)

\* C2: an Action step whose function is not a registered tool gets a "tool not
\* found" observation right after its raw response, no tool is invoked, and
\* control returns to the loop.
C2_UnregisteredToolNotFound ==
  [][(/\ pc = "awaitModel"
      /\ Len(responses') = Len(responses) + 1
      /\ JSONParse(responses'[Len(responses')]).type = "action"
      /\ JSONParse(responses'[Len(responses')]).function \notin Registered)
     => (/\ messages' =
              messages \o <<RawEntry(responses'[Len(responses')]),
                            NotFoundObservation(
                              JSONParse(responses'[Len(responses')]).function)>>
         /\ toolCalls' = toolCalls
         /\ inflightTool' = inflightTool
         /\ pc' = "loop")]_vars

\* C3: once a response that is not valid JSON has arrived, the turn is over:
\* the history is what it was at the model call, nothing is outstanding and no
\* further model call has been issued.
C3_ParseFailureEndsTurn ==
  (responses # <<>> /\ ~JSONParse(LastResponse).ok)
  => (/\ pc \in {"after", "idle"}
      /\ messages = lastInput
      /\ modelCalls = Len(responses)
      /\ inflightModel = 0
      /\ inflightTool = 0)

C3_Witness ==
  /\ Len(responses) >= 2
  /\ ~JSONParse(LastResponse).ok
  /\ TurnEnded

\* C4: when a registered tool's operation throws, exactly one observation
\* carrying the error is appended and control returns to the loop.
C4_ToolFailureContinues ==
  [][(pc = "awaitTool" /\ inflightTool' < inflightTool /\ toolResult' = "throws")
     => (/\ messages' = Append(messages, ToolErrorObservation)
         /\ pc' = "loop"
         /\ exitReason' = "none")]_vars

C4_Witness ==
  /\ toolResult = "throws"
  /\ pc = "awaitModel"
  /\ messages[Len(messages)] = ToolErrorObservation

\* C5: within a turn the history only grows at its end: the history before a
\* step is a prefix of the history after it.
C5_HistoryAppendOnly ==
  [][pc # "idle" => IsPrefix(messages, messages')]_vars

C5_Witness == Len(messages) >= 4 /\ pc = "awaitModel"

\* C6: whenever the latest response parsed as JSON, its raw text is the entry
\* appended to the history the model call was given, whatever the driver did
\* next (dispatch a tool, continue, or leave the loop).
C6_RawAppendedFirst ==
  (responses # <<>> /\ AllAnswered /\ JSONParse(LastResponse).ok)
  => (/\ Len(messages) > Len(lastInput)
      /\ messages[Len(lastInput) + 1] = RawEntry(LastResponse))

\* C7: at most one model call or tool operation is outstanding, and while a
\* model call is outstanding every action in the history has its observation.
C7_SingleFlight ==
  /\ inflightModel + inflightTool <= 1
  /\ inflightModel = 1 =>
       \A i \in 1..Len(messages) :
         IsActionEntry(messages[i]) =>
           i < Len(messages) /\ messages[i + 1].kind = "observation"

C7_Witness ==
  /\ inflightModel = 1
  /\ toolCalls >= 1
  /\ messages[Len(messages)] = SuccessObservation

(***************************************************************************)
(* Claims about the file-tree tools.                                       *)
(***************************************************************************)
Done == phase = "done" /\ result.status = "ok"

\* The directory the call started from.
StartNode ==
  IF call.tool = "browseDirectory" THEN Resolve(0, call.input.path)
  ELSE Resolve(0, call.input.directory)

\* The paths the call emitted, each with whether it names a directory.
Emitted ==
  CASE call.tool = "browseDirectory" ->
         {<<result.files[i].path, FALSE>> : i \in 1..Len(result.files)}
           \cup {<<result.directories[i].path, TRUE>> : i \in 1..Len(result.directories)}
    [] call.tool = "findFiles" ->
         {<<result.results[i].path, FALSE>> : i \in 1..Len(result.results)}
    [] call.tool = "globalSearchReplace" ->
         {<<result.changes[i].file, FALSE>> : i \in 1..Len(result.changes)}

\* The directory components of a path: all but the last name of a file's path.
DirComponents(path, isDir) ==
  {path[k] : k \in 1..(IF isDir THEN Len(path) ELSE Len(path) - 1)}

NoneExcluded(components) ==
  \A c \in components : ~Includes(call.input.excludeDirs, c)

\* An emitted path as it reads from the start directory: browse emits it so,
\* find and search/replace emit it from process.cwd().
FromStart(path) ==
  IF call.tool = "browseDirectory" THEN path
  ELSE SubSeq(path, Len(PathFrom(0, StartNode)) + 1, Len(path))

\* C8 as stated: whatever the start directory, no emitted path has a directory
\* component named in excludeDirs, and nothing at or below a directory so named
\* is enumerated or read.
C8_NoExcludedAnywhere ==
  Done =>
    /\ \A e \in Emitted : NoneExcluded(DirComponents(e[1], e[2]))
    /\ \A i \in 1..Len(reads.dirs) :
         NoneExcluded(DirComponents(PathFrom(0, reads.dirs[i]), TRUE))
    /\ \A i \in 1..Len(reads.files) :
         NoneExcluded(DirComponents(PathFrom(0, reads.files[i]), FALSE))

\* C8 as amended: below the start directory, no emitted path has a directory
\* component named in excludeDirs, and nothing at or below a directory so named
\* is enumerated or read; the start directory itself is always enumerated.
C8_NoExcludedBelowStart ==
  Done =>
    /\ \A e \in Emitted : NoneExcluded(DirComponents(FromStart(e[1]), e[2]))
    /\ \A i \in 1..Len(reads.dirs) :
         NoneExcluded(DirComponents(PathFrom(StartNode, reads.dirs[i]), TRUE))
    /\ \A i \in 1..Len(reads.files) :
         NoneExcluded(DirComponents(PathFrom(StartNode, reads.files[i]), FALSE))

C8_Witness ==
  /\ Done
  /\ call.tool = "findFiles"
  /\ StartNode = 0
  /\ tree[2].name = src
  /\ tree[4].name = node_modules
  /\ call.input.excludeDirs = <<node_modules>>
  /\ reads.dirs = <<0, 2>>
  /\ Len(result.results) >= 1

\* C9: every record of a browse has depth <= maxDepth, the depth being the
\* number of directories between the start directory and the entry; with
\* maxDepth = 0 only the start directory's children are recorded; and no
\* directory recorded at depth maxDepth is enumerated.
C9_DepthBounded ==
  (Done /\ call.tool = "browseDirectory") =>
    /\ \A i \in 1..Len(result.files) :
         /\ result.files[i].depth <= call.input.maxDepth
         /\ result.files[i].depth = Len(result.files[i].path) - 1
    /\ \A i \in 1..Len(result.directories) :
         /\ result.directories[i].depth <= call.input.maxDepth
         /\ result.directories[i].depth = Len(result.directories[i].path) - 1
    /\ \A i \in 1..Len(reads.dirs) :
         Len(PathFrom(StartNode, reads.dirs[i])) <= call.input.maxDepth
    /\ (call.input.maxDepth = 0 /\ call.input.recursive) =>
         /\ \A e \in Emitted : Len(e[1]) = 1
         /\ reads.dirs = <<StartNode>>

C9_Witness ==
  /\ Done
  /\ call.tool = "browseDirectory"
  /\ call.input.recursive
  /\ call.input.maxDepth = 1
  /\ StartNode = 0
  /\ reads.dirs = <<0, 2>>
  /\ \E i \in 1..Len(result.directories) :
       result.directories[i].depth = 1 /\ result.directories[i].name = lib

\* C10: a search/replace call with dryRun = true leaves every file's text as it
\* was and writes nothing; it reports the matches, none of them as replaced.
C10_DryRunWritesNothing ==
  [][(phase = "ready" /\ phase' = "done" /\ call'.tool = "globalSearchReplace"
        /\ call'.input.dryRun)
     => (/\ content' = content
         /\ writes' = <<>>
         /\ result'.status = "ok" =>
              /\ result'.replacements = 0
              /\ \A i \in 1..Len(result'.changes) : ~result'.changes[i].replaced)]_vars

C10_Witness ==
  /\ Done
  /\ call.tool = "globalSearchReplace"
  /\ call.input.dryRun
  /\ call.input.replaceText = Defined(<<"b">>)
  /\ result.matchesFound >= 3
  /\ Len(result.changes) >= 2

(***************************************************************************)
(* Claims about search/replace in apply mode.                              *)
(***************************************************************************)
RECURSIVE LiteralReplaceAll(_, _, _, _)
\* The text with every non-overlapping literal occurrence of searchText, taken
\* from the left, replaced by replaceText.
LiteralReplaceAll(text, i, searchText, replaceText) ==
  IF i > Len(text) THEN <<>>
  ELSE IF i + Len(searchText) - 1 <= Len(text)
          /\ SubSeq(text, i, i + Len(searchText) - 1) = searchText
    THEN replaceText \o LiteralReplaceAll(text, i + Len(searchText), searchText, replaceText)
  ELSE <<text[i]>> \o LiteralReplaceAll(text, i + 1, searchText, replaceText)

RECURSIVE SumOver(_, _)
\* The sum of f over the elements of a sequence of nodes.
SumOver(f, nodes) ==
  IF nodes = <<>> THEN 0 ELSE f[Head(nodes)] + SumOver(f, Tail(nodes))

\* C11: a search/replace call in apply mode (dryRun = false, a replacement
\* text given, nothing failing in the file system) leaves every file it read
\* with each literal occurrence of searchText replaced by replaceText, and
\* reports matchesFound and replacements both equal to the number of literal
\* occurrences in the files it read.
C11_ApplyReplacesLiteralOccurrences ==
  [][(/\ phase = "ready" /\ phase' = "done"
      /\ call'.tool = "globalSearchReplace"
      /\ result'.status = "ok"
      /\ ~call'.input.dryRun
      /\ call'.input.replaceText.defined
      /\ unreadable = {} /\ unwritable = {})
     => LET occurrences ==
              [n \in Nodes |-> SplitCount(content[n], 1, call'.input.searchText)]
        IN /\ \A i \in 1..Len(reads'.files) :
                content'[reads'.files[i]] =
                  LiteralReplaceAll(content[reads'.files[i]], 1, call'.input.searchText,
                                    call'.input.replaceText.text)
           /\ result'.matchesFound = SumOver(occurrences, reads'.files)
           /\ result'.replacements = result'.matchesFound]_vars

(***************************************************************************)
(* Claims about the command line and the direct commands.                  *)
(***************************************************************************)
\* The words of the command as the user gave them.
CommandTokens ==
  IF argv.via = "argv" THEN argv.args ELSE SplitOn(Trim(argv.message), " ")

\* The user gave the flag.
HasFlag(option) == \E i \in 1..Len(CommandTokens) : CommandTokens[i] = option

\* The user gave the option with this value.
Given(option, value) ==
  \E i \in 1..(Len(CommandTokens) - 1) :
    CommandTokens[i] = option /\ CommandTokens[i + 1] = value

\* C12: a replace command given with --dry-run, on the command line or as a
\* direct command of the interactive mode, changes no file: every text is as
\* it was and nothing is written.
C12_DryRunFlagWritesNothing ==
  [][(/\ phase = "ready" /\ phase' = "done"
      /\ argv.via \in {"argv", "line"}
      /\ CommandTokens[1] = cmd_replace
      /\ HasFlag(opt_dry_run))
     => (content' = content /\ writes' = <<>>)]_vars

(***************************************************************************)
(* Claims about the match rule of findFiles.                               *)
(***************************************************************************)
Matched == phase = "done" /\ call.tool = "matchesPattern"

RECURSIVE GlobMatch(_, _, _, _)
\* The whole of name, from name[j] on, matches pattern from pattern[i] on, a
\* "*" standing for zero or more characters and any other character for itself.
GlobMatch(pattern, i, name, j) ==
  IF i > Len(pattern) THEN j > Len(name)
  ELSE IF pattern[i] = "*"
    THEN \/ GlobMatch(pattern, i + 1, name, j)
         \/ j <= Len(name) /\ GlobMatch(pattern, i, name, j + 1)
  ELSE /\ j <= Len(name)
       /\ pattern[i] = name[j]
       /\ GlobMatch(pattern, i + 1, name, j + 1)

\* The name contains the pattern as a substring.
Contains(name, pattern) ==
  \E i \in 1..(Len(name) + 1) : \E j \in (i - 1)..Len(name) :
    SubSeq(name, i, j) = pattern

\* The extension rule: the filter is non-empty and holds the name's extension.
ExtensionRule ==
  call.fileTypes # <<>>
    /\ \E k \in 1..Len(call.fileTypes) : call.fileTypes[k] = ExtName(call.name)

\* C13: for a pattern with a "*", a name with no extension filter given
\* matches exactly when the whole name matches the pattern read as a glob:
\* "*" for any run of characters, every other character for itself.
C13_WildcardIsLiteralGlob ==
  (Matched /\ Includes(call.pattern, "*") /\ call.fileTypes = <<>>)
    => (result.matches <=> GlobMatch(call.pattern, 1, call.name, 1))

RECURSIVE Ancestors(_)
\* The directories above a node.
Ancestors(n) == IF n = 0 THEN {} ELSE {Parent[n]} \cup Ancestors(Parent[n])

\* The node an emitted path names.
EmittedNode(path) ==
  IF call.tool = "browseDirectory" THEN Resolve(StartNode, path) ELSE Resolve(0, path)

InReads(d) == \E i \in 1..Len(reads.dirs) : reads.dirs[i] = d

\* The walk, having listed the parent of directory d, goes on into d.
Eligible(d) ==
  LET parentDepth == Len(PathFrom(StartNode, Parent[d]))
      hidden == ~call.input.includeHidden /\ StartsWithDot(tree[d].name)
      excluded == Includes(call.input.excludeDirs, tree[d].name)
  IN CASE call.tool = "browseDirectory" ->
            ~hidden /\ ~excluded /\ call.input.recursive
              /\ parentDepth < call.input.maxDepth
       [] call.tool = "findFiles" ->
            ~hidden /\ ~excluded /\ parentDepth + 1 <= call.input.maxDepth
       [] call.tool = "globalSearchReplace" -> ~excluded

\* The call was given what it requires: a pattern, a search text.
ValidInput ==
  CASE call.tool = "findFiles" -> call.input.pattern # <<>>
    [] call.tool = "globalSearchReplace" -> call.input.searchText # <<>>
    [] OTHER -> TRUE

\* C15: when the only failures are directories that cannot be opened, a walk
\* (browse, find, search/replace) still succeeds; nothing below such a
\* directory is emitted, enumerated or read; and every other directory the
\* walk would enter is still enumerated.
C15_UnopenableDirectorySkipped ==
  (/\ phase = "done"
   /\ call.tool \in {"browseDirectory", "findFiles", "globalSearchReplace"}
   /\ ValidInput
   /\ \A n \in unreadable : tree[n].dir)
  => /\ result.status = "ok"
     /\ \A e \in Emitted : Ancestors(EmittedNode(e[1])) \cap unreadable = {}
     /\ \A i \in 1..Len(reads.dirs) : Ancestors(reads.dirs[i]) \cap unreadable = {}
     /\ \A i \in 1..Len(reads.files) : Ancestors(reads.files[i]) \cap unreadable = {}
     /\ \A d \in Nodes \ {0} :
          (/\ tree[d].dir
           /\ InReads(Parent[d])
           /\ Parent[d] \notin unreadable
           /\ Eligible(d))
          => InReads(d)

C15_Witness ==
  /\ Done
  /\ call.tool = "browseDirectory"
  /\ unreadable = {1}
  /\ tree[1].dir
  /\ tree[4].name = lib
  /\ reads.dirs = <<0, 1, 2, 4>>
  /\ Len(result.files) >= 2

(***************************************************************************)
(* Claims about searchInFiles.                                             *)
(***************************************************************************)
\* The text search descends into the directory.
Searched(d) == ~StartsWithDot(tree[d].name) /\ tree[d].name # node_modules

\* File f lies in the part of the tree the search covers, with nothing
\* unreadable on the way: every directory from the start down to it is
\* searched and can be opened, and the file can be read.
Reachable(f) ==
  /\ ~tree[f].dir
  /\ f \notin unreadable
  /\ StartNode \in Ancestors(f)
  /\ \A d \in Ancestors(f) :
       (d = StartNode \/ StartNode \in Ancestors(d)) =>
         (d \notin unreadable /\ (d # StartNode => Searched(d)))

\* C16: a text search given a pattern reports success whatever cannot be
\* read; no match comes from an unreadable file or from below an unreadable
\* directory; and every file that can be reached and read, has the extension
\* asked for and contains the pattern, is among the matches.
C16_SearchAbsorbsUnreadable ==
  (phase = "done" /\ call.tool = "searchInFiles" /\ call.input.pattern # <<>>)
  => /\ result.status = "ok"
     /\ \A i \in 1..Len(result.results) :
          LET f == Resolve(0, result.results[i].file)
          IN f \notin unreadable /\ Ancestors(f) \cap unreadable = {}
     /\ \A f \in Nodes \ {0} :
          (/\ Reachable(f)
           /\ call.input.fileExtension.defined =>
                EndsWith(tree[f].name, call.input.fileExtension.text)
           /\ Contains(content[f], call.input.pattern))
          => \E i \in 1..Len(result.results) :
               result.results[i].file = PathFrom(0, f)

(***************************************************************************)
(* Claims about the options and failures of direct commands.               *)
(***************************************************************************)
\* C17: in an interactive session, once a direct command has run, whether
\* its tool succeeded or failed, the session is at its next prompt.
C17_DirectCommandKeepsSession ==
  (argv.via = "line" /\ phase = "done") => pc = "idle"

\* Every record a browse emitted is at depth n or less.
NoDeeperThan(n) ==
  /\ \A i \in 1..Len(result.files) : result.files[i].depth <= n
  /\ \A i \in 1..Len(result.directories) : result.directories[i].depth <= n

\* C18: the tool a command line invoked was given the values of the options
\* on that command line: the number after --max-depth (and a browse emits
\* nothing deeper), the lists after --file-types and --exclude-dirs, and
\* includeHidden when --include-hidden was given.
C18_OptionsReachTool ==
  (/\ phase = "done"
   /\ argv.via = "argv"
   /\ call.tool \in {"browseDirectory", "findFiles"})
  => /\ \A n \in 0..MaxDepthBound :
          Given(opt_max_depth, <<Digits[n + 1]>>) =>
            /\ call.input.maxDepth = n
            /\ call.tool = "browseDirectory" => NoDeeperThan(n)
     /\ HasFlag(opt_include_hidden) => call.input.includeHidden
     /\ Given(opt_file_types, dot_js) => call.input.fileTypes = <<dot_js>>
     /\ Given(opt_file_types, dot_md) => call.input.fileTypes = <<dot_md>>
     /\ Given(opt_exclude_dirs, lib) => call.input.excludeDirs = <<lib>>
     /\ Given(opt_exclude_dirs, lib \o <<",">> \o dot_git) =>
          call.input.excludeDirs = <<lib, dot_git>>

(***************************************************************************)
(* Claims about how a turn ends.                                           *)
(***************************************************************************)
\* C19: a turn is reported as having reached the maximum steps only when it
\* ended because the step counter exhausted the budget, never when it ended
\* with an Output step or a parse failure.
C19_WarningOnlyOnBudget ==
  (TurnEnded /\ warned) => exitReason = "budget"

\* C20: once the latest response is an Output step the turn is over: the
\* history is the one given to that model call plus the raw response, no
\* further model call has been issued and nothing is outstanding.
C20_OutputIsTerminal ==
  (responses # <<>> /\ AllAnswered /\ JSONParse(LastResponse).type = "output")
  => (/\ pc \in {"after", "idle"}
      /\ messages = Append(lastInput, RawEntry(LastResponse))
      /\ modelCalls = Len(responses)
      /\ inflightModel = 0
      /\ inflightTool = 0)

C20_Witness ==
  /\ TurnEnded
  /\ Len(responses) >= 2
  /\ toolCalls >= 1
  /\ JSONParse(LastResponse).type = "output"
  /\ messages[Len(messages)] = RawEntry(ROutput)

(***************************************************************************)
(* Claims about the steps of a turn and its history.                       *)
(***************************************************************************)
\* The response the step has just received.
Received == responses'[Len(responses')]

\* C21: handling a Plan step appends the raw response and nothing else,
\* invokes no tool, touches nothing of the file system, and returns control
\* to the head of the loop, where the next step is requested.
C21_PlanHasNoSideEffect ==
  [][(/\ pc = "awaitModel"
      /\ Len(responses') = Len(responses) + 1
      /\ JSONParse(Received).type = "plan")
     => (/\ messages' = Append(messages, RawEntry(Received))
         /\ toolCalls' = toolCalls
         /\ inflightTool' = inflightTool
         /\ toolVars' = toolVars
         /\ pc' = "loop")]_vars

C21_Witness ==
  /\ pc = "awaitModel"
  /\ Len(responses) = 1
  /\ responses[1] = RPlan
  /\ modelCalls = 2
  /\ lastInput = <<messages[1], RawEntry(RPlan)>>

\* C22: a model call is given the whole current history; within a turn the
\* input of a call has the input of the call before it as a prefix, and in it
\* every action is followed by its observation.
C22_ModelCallGetsFullHistory ==
  [][(modelCalls' = modelCalls + 1)
     => (/\ lastInput' = messages
         /\ modelCalls >= 1 => IsPrefix(lastInput, lastInput')
         /\ \A i \in 1..Len(lastInput') :
              IsActionEntry(lastInput'[i]) =>
                i < Len(lastInput') /\ lastInput'[i + 1].kind = "observation")]_vars

C22_Witness ==
  /\ pc = "awaitModel"
  /\ modelCalls = 2
  /\ toolCalls = 1
  /\ Len(lastInput) = 3
  /\ lastInput[3] = SuccessObservation

RawEntries == {i \in 1..Len(messages) : messages[i].kind = "raw"}

\* C25: in a turn the history starts with the user step and holds no other;
\* an observation comes right after the raw response of an action; the raw
\* response of an action is followed by an observation, or is the last entry
\* while its tool is still running; no entry follows an observation but a raw
\* response; and there are no more raw entries than responses, and no more
\* tool invocations than actions in the history.
C25_HistoryWellFormed ==
  turn > 0 =>
    /\ Len(messages) >= 1
    /\ \A i \in 1..Len(messages) : (messages[i].kind = "user") <=> (i = 1)
    /\ \A i \in 1..Len(messages) :
         messages[i].kind = "observation" => IsActionEntry(messages[i - 1])
    /\ \A i \in 1..Len(messages) :
         IsActionEntry(messages[i]) =>
           IF i < Len(messages) THEN messages[i + 1].kind = "observation"
           ELSE pc = "awaitTool" /\ inflightTool = 1
    /\ Cardinality(RawEntries) <= Len(responses)
    /\ toolCalls <= Cardinality({i \in RawEntries : IsActionEntry(messages[i])})

C25_Witness ==
  /\ pc = "awaitModel"
  /\ toolCalls = 1
  /\ Len(messages) = 5
  /\ messages[3] = SuccessObservation
  /\ messages[5].kind = "observation"

\* C28: a request starts its turn with a history of one entry, its user step,
\* and a step counter of zero; the first model call of the turn is given that
\* one entry, the counter then being one.
C28_TurnStartsFresh ==
  [][/\ (turn' = turn + 1) =>
          (/\ Len(messages') = 1
           /\ messages'[1].kind = "user"
           /\ messages'[1].text \in Prompts
           /\ stepCount' = 0
           /\ modelCalls' = 0)
     /\ (modelCalls = 0 /\ modelCalls' = 1) =>
          (/\ lastInput' = messages
           /\ Len(lastInput') = 1
           /\ lastInput'[1].kind = "user"
           /\ stepCount' = 1)]_vars

C28_Witness ==
  /\ turn = 2
  /\ pc = "awaitModel"
  /\ modelCalls = 1
  /\ Len(lastInput) = 1
  /\ lastInput[1].kind = "user"

(***************************************************************************)
(* Claims about hidden entries.                                            *)
(***************************************************************************)
\* No entry of the directory fails fs.stat.
StatsSucceedIn(d) ==
  \A i \in 1..Len(Children(d)) : Children(d)[i] \notin unreadable

\* The entry n, listed by the walk, passes the filters other than the hidden
\* one: a directory is not named in excludeDirs; a file has a wanted extension
\* (browse) or matches the pattern (find).
PassesOtherFilters(n) ==
  IF IsDirectory(n) THEN ~IsExcluded(n, call.input.excludeDirs)
  ELSE IF call.tool = "browseDirectory"
    THEN Len(call.input.fileTypes) = 0
           \/ Includes(call.input.fileTypes, ExtName(tree[n].name))
  ELSE MatchesPattern(tree[n].name, call.input.pattern, call.input.fileTypes)

\* The entry n shows in what the walk produced: browse lists it, find lists a
\* file and goes into a directory within the depth bound.
Shown(n) ==
  IF call.tool = "browseDirectory"
    THEN <<PathFrom(StartNode, n), IsDirectory(n)>> \in Emitted
  ELSE IF IsFile(n) THEN <<PathFrom(0, n), FALSE>> \in Emitted
  ELSE Len(PathFrom(StartNode, n)) <= call.input.maxDepth => InReads(n)

\* C23: without includeHidden, browse and find emit no entry whose name starts
\* with a dot and go into no directory so named below the start directory;
\* with includeHidden, an entry so named that the walk lists is shown as any
\* other entry is: unless a directory named in excludeDirs, or a file the
\* extension or pattern filter drops.
C23_HiddenRespected ==
  (Done /\ call.tool \in {"browseDirectory", "findFiles"} /\ ValidInput) =>
    /\ ~call.input.includeHidden =>
         /\ \A e \in Emitted : ~StartsWithDot(e[1][Len(e[1])])
         /\ \A i \in 1..Len(reads.dirs) :
              reads.dirs[i] # StartNode => ~StartsWithDot(tree[reads.dirs[i]].name)
    /\ call.input.includeHidden =>
         \A n \in Nodes \ {0} :
           (/\ StartsWithDot(tree[n].name)
            /\ InReads(Parent[n])
            /\ ~ReaddirFails(Parent[n])
            /\ StatsSucceedIn(Parent[n])
            /\ PassesOtherFilters(n)) => Shown(n)

\* A browse without includeHidden passed over hidden entries, and a find with
\* it listed a hidden file below a hidden directory.
C23_WitnessSkipped ==
  /\ Done
  /\ call.tool = "browseDirectory"
  /\ ~call.input.includeHidden
  /\ call.input.recursive
  /\ call.input.maxDepth = 2
  /\ StartNode = 0
  /\ tree[1].name = dot_env
  /\ tree[4].name = dot_git
  /\ InReads(2)
  /\ ~InReads(4)

C23_Witness ==
  /\ Done
  /\ call.tool = "findFiles"
  /\ call.input.includeHidden
  /\ call.input.excludeDirs = <<node_modules>>
  /\ StartNode = 0
  /\ tree[4].name = dot_git
  /\ tree[5].name = dot_d_js
  /\ <<PathFrom(0, 5), FALSE>> \in Emitted

(***************************************************************************)
(* Claims about what search/replace and browse report.                     *)
(***************************************************************************)
RECURSIVE RegexMatchCount(_, _, _)
\* The substitutions content.replace(new RegExp(source, 'g'), ...) performs.
RegexMatchCount(text, i, source) ==
  IF i > Len(text) THEN 0
  ELSE IF MatchesAt(text, i, source)
    THEN 1 + RegexMatchCount(text, i + Len(source), source)
  ELSE RegexMatchCount(text, i + 1, source)

\* The files a search/replace result reports as replaced.
ReplacedNodes(changes) ==
  {Resolve(0, changes[i].file) : i \in {j \in 1..Len(changes) : changes[j].replaced}}

\* C24: in apply mode, every file reported as replaced has exactly its
\* literal occurrences of searchText substituted, no other file is changed,
\* and the replacements reported are the substitutions performed.
C24_ReportedReplacementsAreLiteral ==
  [][(/\ phase = "ready" /\ phase' = "done"
      /\ call'.tool = "globalSearchReplace"
      /\ result'.status = "ok"
      /\ ~call'.input.dryRun
      /\ call'.input.replaceText.defined)
     => LET replaced == ReplacedNodes(result'.changes)
            performed ==
              [n \in Nodes |-> RegexMatchCount(content[n], 1, call'.input.searchText)]
        IN /\ \A n \in replaced :
                content'[n] = LiteralReplaceAll(content[n], 1, call'.input.searchText,
                                                call'.input.replaceText.text)
           /\ \A n \in Nodes \ replaced : content'[n] = content[n]
           /\ result'.replacements = SumOver(performed, writes')]_vars

RECURSIVE SumMatches(_, _)
\* The sum of the match counts of the change entries, of all of them or of
\* those marked replaced.
SumMatches(changes, onlyReplaced) ==
  IF changes = <<>> THEN 0
  ELSE (IF onlyReplaced /\ ~Head(changes).replaced THEN 0 ELSE Head(changes).matches)
         + SumMatches(Tail(changes), onlyReplaced)

\* C26: after a search/replace call, filesProcessed is the number of change
\* entries, matchesFound the sum of their match counts, and replacements the
\* sum of the match counts of the entries marked replaced, none in a dry run.
C26_CountersConsistent ==
  (Done /\ call.tool = "globalSearchReplace") =>
    /\ result.filesProcessed = Len(result.changes)
    /\ result.matchesFound = SumMatches(result.changes, FALSE)
    /\ result.replacements = SumMatches(result.changes, TRUE)
    /\ call.input.dryRun => result.replacements = 0

\* C27: browse records every entry of the directories it lists that passes
\* the hidden, excludeDirs and fileTypes filters and can be stat'ed, and its
\* totals are the number and the summed size of what it recorded.
C27_BrowseRecordsEveryEntry ==
  (Done /\ call.tool = "browseDirectory") =>
    /\ \A n \in Nodes \ {0} :
         (/\ InReads(Parent[n])
          /\ ~ReaddirFails(Parent[n])
          /\ ~SkipHidden(call.input.includeHidden, tree[n].name)
          /\ PassesOtherFilters(n)
          /\ IsFile(n) => n \notin unreadable)
         => <<PathFrom(StartNode, n), IsDirectory(n)>> \in Emitted
    /\ result.totalFiles = Len(result.files)
    /\ result.totalDirs = Len(result.directories)
    /\ result.totalSize =
         SumOver([n \in Nodes |-> Size(n)],
                 [i \in 1..Len(result.files) |-> Resolve(StartNode, result.files[i].path)])

(***************************************************************************)
(* backupWorkspace.  Absolute paths are sequences of characters, as the    *)
(* path module computes them; the workspace is the tree under              *)
(* process.cwd().                                                          *)
(***************************************************************************)
RECURSIVE NormalizeParts(_, _)
\* The names of a normalized path: "" and "." dropped, ".." taking one back.
NormalizeParts(parts, stack) ==
  IF parts = <<>> THEN stack
  ELSE IF Head(parts) = <<>> \/ Head(parts) = <<".">>
    THEN NormalizeParts(Tail(parts), stack)
  ELSE IF Head(parts) = <<".", ".">>
    THEN NormalizeParts(Tail(parts),
                        IF stack = <<>> THEN stack ELSE SubSeq(stack, 1, Len(stack) - 1))
  ELSE NormalizeParts(Tail(parts), Append(stack, Head(parts)))

\* The names of an absolute path.
PathParts(absolute) == NormalizeParts(SplitOn(absolute, "/"), <<>>)

RECURSIVE PathResolveFrom(_, _)
\* path.resolve(...paths) before normalization: a later absolute path
\* replaces what came before it, a relative one is appended.
PathResolveFrom(base, paths) ==
  IF paths = <<>> THEN base
  ELSE IF StartsWith(Head(paths), <<"/">>)
    THEN PathResolveFrom(Head(paths), Tail(paths))
  ELSE PathResolveFrom(base \o <<"/">> \o Head(paths), Tail(paths))

\* path.resolve(...paths) in a process whose working directory is cwd
PathResolve(cwd, paths) ==
  <<"/">> \o Join(PathParts(PathResolveFrom(cwd, paths)), "/")

\* path.join(dir, name)
PathJoin(dir, name) ==
  <<"/">> \o Join(PathParts(dir \o <<"/">> \o name), "/")

\* `backup-${timestamp}`, for one instant
BackupName == <<"b", "a", "c", "k", "u", "p", "-", "T">>

\* entry.name.startsWith('backup-')
BackupPrefix == <<"b", "a", "c", "k", "u", "p", "-">>

\* const excludeDirs = includeNodeModules ? [".git"] : ["node_modules", ".git"]
BackupExcludeDirs(includeNodeModules) ==
  IF includeNodeModules THEN <<dot_git>> ELSE <<node_modules, dot_git>>

RECURSIVE CopyDirectory(_, _, _, _, _)
RECURSIVE CopyEntries(_, _, _, _, _, _, _)

\* async function copyDirectory(src, dest); st carries the directories made,
\* the files copied, the fs.readdir calls, and whether an fs call has thrown.
CopyDirectory(cwd, excludeDirs, srcDir, destDir, st) ==
  LET made == [st EXCEPT !.created = Append(@, destDir), !.reads = Append(@, srcDir)]
  IN IF ReaddirFails(srcDir) THEN [made EXCEPT !.failed = TRUE]
     ELSE CopyEntries(cwd, excludeDirs, srcDir, destDir, Children(srcDir), 1, made)

\* for (const entry of entries) { ... }, from the i-th entry on
CopyEntries(cwd, excludeDirs, srcDir, destDir, entries, i, st) ==
  IF i > Len(entries) \/ st.failed THEN st
  ELSE
    LET entry == entries[i]
        name == tree[entry].name
        srcPath == PathJoin(cwd, Join(PathFrom(0, entry), "/"))
        destPath == PathJoin(destDir, name)
        rest(next) == CopyEntries(cwd, excludeDirs, srcDir, destDir, entries, i + 1, next)
    IN
    IF srcPath = destPath THEN rest(st)
    ELSE IF IsDirectory(entry) /\ StartsWith(name, BackupPrefix) THEN rest(st)
    ELSE IF IsDirectory(entry) /\ ~Includes(excludeDirs, name)
      THEN rest(CopyDirectory(cwd, excludeDirs, entry, destPath, st))
    ELSE IF IsFile(entry)
      THEN rest([st EXCEPT !.copied = Append(@, [from |-> entry, to |-> destPath])])
    ELSE rest(st)

\* if (backupDir.startsWith(currentDir)) throw ...
RejectsBackupDir(backupDir, currentDir) == StartsWith(backupDir, currentDir)

\* tools.backupWorkspace.fn(input), run in a process whose working directory
\* is cwd.
BackupFn(cwd, input) ==
  /\ phase = "ready"
  /\ phase' = "done"
  /\ call' = [tool |-> "backupWorkspace", input |-> input, cwd |-> cwd]
  /\ LET backupDir == PathResolve(cwd, <<input.backupPath, BackupName>>)
         currentDir == PathResolve(cwd, <<cwd>>)
     IN IF RejectsBackupDir(backupDir, currentDir)
          THEN /\ result' =
                    [status |-> "error",
                     message |-> "Backup failed: Backup directory cannot be inside the current workspace",
                     backupDir |-> backupDir, created |-> <<>>, copied |-> <<>>]
               /\ reads' = [dirs |-> <<>>, files |-> <<>>]
          ELSE LET st == CopyDirectory(cwd, BackupExcludeDirs(input.includeNodeModules),
                                       0, backupDir,
                                       [created |-> <<backupDir>>, copied |-> <<>>,
                                        reads |-> <<>>, failed |-> FALSE])
               IN /\ result' =
                       [status |-> IF st.failed THEN "error" ELSE "ok",
                        message |-> IF st.failed THEN "Backup failed: EACCES"
                                    ELSE "Workspace backed up",
                        backupDir |-> backupDir, created |-> st.created,
                        copied |-> st.copied]
                  /\ reads' = [dirs |-> st.reads, files |-> <<>>]
  /\ writes' = <<>>
  /\ UNCHANGED fsVars

Backup(cwd, input) == BackupFn(cwd, input) /\ UNCHANGED driverVars

\* The working directories of the process.
Workspaces == {<<"/", "w", "/", "p">>, <<"/", "p">>}

\* The backupPath inputs: relative and absolute, inside the workspace,
\* beside it, above it and elsewhere.
BackupPaths ==
  {<<".", "/", "b", "a", "c", "k", "u", "p", "s">>,
   <<"b">>,
   <<".", ".", "/", "p", "b">>,
   <<".", ".", "/", "q">>,
   <<".", ".">>,
   <<"/", "t">>,
   <<"/", "w", "/", "p", "b">>,
   <<"/", "w", "/", "p", "/", "b">>,
   <<"/", "w", "/", "p", "/", ".", ".", "/", "q">>}

BackupInputs ==
  {[backupPath |-> b, includeNodeModules |-> n] : b \in BackupPaths, n \in BOOLEAN}

InitBackup ==
  /\ driver = "cli"
  /\ DriverIdle
  /\ tree \in Trees
  /\ content = DefaultContent
  /\ unreadable \in {{}, {4}}
  /\ unwritable = {}
  /\ argv = NoCommand
  /\ config = FreshProcess(NoConfigFile)
  /\ ToolsReady

BackupCall ==
  phase = "ready" /\ \E cwd \in Workspaces : \E input \in BackupInputs : Backup(cwd, input)

NextBackup == BackupCall

SpecBackup == InitBackup /\ [][NextBackup]_vars

\* The directory lies inside the workspace: the names of the workspace's path
\* are the first names of the directory's path.
Inside(dir, workspace) == IsPrefix(PathParts(workspace), PathParts(dir))

\* The files copyDirectory is to copy: those of the workspace not below a
\* directory that is excluded or named backup-*.
Copied(n) ==
  /\ IsFile(n)
  /\ \A d \in Ancestors(n) \ {0} :
       /\ ~Includes(BackupExcludeDirs(call.input.includeNodeModules), tree[d].name)
       /\ ~StartsWith(tree[d].name, BackupPrefix)

\* C30: a backup is rejected, with nothing created, exactly when the resolved
\* backup directory lies inside the workspace; otherwise, when every
\* directory can be read, every file to copy is copied below the backup
\* directory, and nothing is ever created or copied inside the workspace.
C30_RejectsExactlyInsideWorkspace ==
  (phase = "done" /\ call.tool = "backupWorkspace") =>
    LET rejected ==
          result.message = "Backup failed: Backup directory cannot be inside the current workspace"
        inside == Inside(result.backupDir, call.cwd)
    IN /\ rejected <=> inside
       /\ rejected => result.created = <<>> /\ result.copied = <<>>
       /\ (~inside /\ unreadable = {}) =>
            /\ result.status = "ok"
            /\ \A n \in Nodes :
                 Copied(n) <=>
                   \E i \in 1..Len(result.copied) :
                     /\ result.copied[i].from = n
                     /\ result.copied[i].to =
                          PathJoin(result.backupDir, Join(PathFrom(0, n), "/"))
       /\ \A i \in 1..Len(result.created) : ~Inside(result.created[i], call.cwd)
       /\ \A i \in 1..Len(result.copied) : ~Inside(result.copied[i].to, call.cwd)

(***************************************************************************)
(* The configuration tools, called one after another in one process.       *)
(***************************************************************************)
configUnchanged == <<driverVars, tree, content, unreadable, unwritable, argv,
                     phase, reads, writes>>

\* tools.getConfig.fn({path}), for the paths global.maxDepth and templates.node
GetConfigFn(path) ==
  /\ phase = "ready"
  /\ config' = ConfigLoad(config)
  /\ call' = [tool |-> "getConfig", path |-> path]
  /\ result' = [status |-> "ok",
                value |-> IF path = "global.maxDepth"
                            THEN [maxDepth |-> GlobalOf(config')]
                            ELSE [templates |-> TemplatesOf(config')]]
  /\ UNCHANGED configUnchanged

\* tools.setConfig.fn({path: "global.maxDepth", value})
SetConfigFn(value) ==
  /\ phase = "ready"
  /\ config' = ConfigSave(ConfigSet(ConfigLoad(config), value))
  /\ call' = [tool |-> "setConfig", value |-> value]
  /\ result' = [status |-> "ok"]
  /\ UNCHANGED configUnchanged

\* tools.addTemplate.fn({type: "node", name, template})
AddTemplateFn(name) ==
  /\ phase = "ready"
  /\ config' = ConfigAddTemplate(ConfigLoad(config), name)
  /\ call' = [tool |-> "addTemplate", name |-> name]
  /\ result' = [status |-> "ok"]
  /\ UNCHANGED configUnchanged

\* tools.removeTemplate.fn({type: "node", name})
RemoveTemplateFn(name) ==
  /\ phase = "ready"
  /\ config' = ConfigRemoveTemplate(ConfigLoad(config), name)
  /\ call' = [tool |-> "removeTemplate", name |-> name]
  /\ result' = [status |-> "ok"]
  /\ UNCHANGED configUnchanged

\* tools.resetConfig.fn()
ResetConfigFn ==
  /\ phase = "ready"
  /\ config' = ConfigReset(config)
  /\ call' = [tool |-> "resetConfig"]
  /\ result' = [status |-> "ok"]
  /\ UNCHANGED configUnchanged

\* The values a setting is given, and the template names used.
MaxDepthChoices == {ConfigDefaultMaxDepth, 9}
TemplateNames == DefaultTemplates \cup {"custom"}

\* config.json when the process starts: missing (a first run), or written by
\* an earlier run.
ConfigFiles ==
  {NoConfigFile, ConfigFile(ConfigDefaultMaxDepth, DefaultTemplates),
   ConfigFile(9, {"basic", "custom"})}

InitConfig ==
  /\ driver = "cli"
  /\ DriverIdle
  /\ tree = DefaultTree
  /\ content = DefaultContent
  /\ unreadable = {}
  /\ unwritable = {}
  /\ argv = NoCommand
  /\ config \in {FreshProcess(f) : f \in ConfigFiles}
  /\ ToolsReady

GetConfigCall == \E path \in {"global.maxDepth", "templates.node"} : GetConfigFn(path)
SetConfigCall == \E value \in MaxDepthChoices : SetConfigFn(value)
AddTemplateCall == \E name \in TemplateNames : AddTemplateFn(name)
RemoveTemplateCall == \E name \in TemplateNames : RemoveTemplateFn(name)
ResetConfigCall == ResetConfigFn

NextConfig ==
  \/ GetConfigCall
  \/ SetConfigCall
  \/ AddTemplateCall
  \/ RemoveTemplateCall
  \/ ResetConfigCall

SpecConfig == InitConfig /\ [][NextConfig]_vars

====
